---- MODULE Spec2Model ----
(***************************************************************************)
(* Model of the world_university_scraper core:                             *)
(*   - SeleniumBaseScraper._make_request (retry / backoff / re-init)        *)
(*   - UniversityDetailPipeline.run_batch / run and                        *)
(*     UniversityDetailScraper.scrape_university_details                   *)
(*   - combine_datasets (left join of rank entries with detail records)    *)
(*   - UniversityDetailPipeline._validate_urls                             *)
(*   - RankingsParser.parse, _extract_rank and _extract_score              *)
(*   - UniversityDetailParser.parse and the section extraction of one      *)
(*     detail page (ranking metrics, subjects)                             *)
(*   - ScrapingPipeline.run around RankingsParser.parse                    *)
(*   - the score / rank classification of one ranking section, by the      *)
(*     parser and by the live scraper                                      *)
(*   - one acquisition: scrape_rankings with its scroll loop, and          *)
(*     _scrape_single_university                                           *)
(* Python dicts are functions from key strings to values; None, missing    *)
(* sessions and opaque payloads are encoded as strings / naturals.         *)
(***************************************************************************)
EXTENDS Integers, Sequences, FiniteSets, TLC

VARIABLES
    \* ---- browser session (SeleniumBaseScraper) ----
    driver,        \* self.driver: 0 is None, n > 0 is the n-th session created
    nextSid,       \* id the next created session will get
    quitted,       \* ids of the sessions that are no longer alive
    max_retries,   \* config.get("max_retries", 3)
    \* ---- one call of _make_request ----
    mr_pc,         \* "idle" | "loop" | "recover" | "returned" | "raised"
    retry_count,   \* local retry_count
    mr_exc,        \* exception leaving the call ("" when none)
    navLog,        \* one entry per loop iteration that reached driver.get
    sleeps,        \* the time.sleep calls made, in order
    \* ---- UniversityDetailPipeline.run_batch ----
    university_urls, \* argument of run_batch
    batch_size,      \* argument of run_batch
    rb_pc,           \* position inside run_batch / run / scrape_university_details
    rb_i,            \* loop variable i of run_batch
    valid_urls,      \* run: result of _validate_urls for the current batch
    sc_j,            \* scrape_university_details: URLs of the batch handled so far
    results,         \* scrape_university_details: local results list
    batch_results,   \* run_batch: value returned by run for the current batch
    all_results,     \* run_batch: accumulated list
    files,           \* files written by _save_results / _save_batch_results
    events,          \* history: what happened, in order
    \* ---- combine_datasets ----
    heap,            \* object id -> dict
    rankings_data,   \* argument: list of object ids
    universities_data, \* argument: list of object ids
    uni_details,     \* local lookup: url -> object id
    combined,        \* local result list of object ids
    cb_k,            \* rank entries handled so far
    cb_pc,           \* "start" | "loop" | "done"
    heap0,           \* history: the heap when combine_datasets was called
    \* ---- UniversityDetailPipeline._validate_urls ----
    v_urls,          \* argument urls of the first call
    v_once,          \* value returned by _validate_urls(urls)
    v_twice,         \* value returned by _validate_urls of that value
    v_pc,            \* "off" | "start" | "once" | "twice"
    \* ---- RankingsParser._extract_rank / _extract_score ----
    ex_fn,           \* which method is called: "rank" | "score"
    ex_text,         \* argument rank_text / score_text (a sequence of characters)
    ex_out,          \* value returned
    ex_warnings,     \* logger.warning calls made by the call
    ex_pc,           \* "off" | "call" | "returned"
    \* ---- RankingsParser.parse ----
    rp_content,      \* the parsed document: its <table> elements in document order
    rp_table,        \* local table: index into rp_content, 0 when not found
    rp_i,            \* data rows handled so far
    universities,    \* local result list
    rp_log,          \* warning / error / debug log events, in order
    rp_pc,           \* "off" | "start" | "rows" | "returned" | "raised"
    \* ---- one detail page: UniversityDetailParser.parse and the scraper ----
    dp_url,          \* the url argument
    dp_page,         \* what the page holds, section by section
    dp_parsed,       \* UniversityDetailParser.parse(content, url)
    dp_scraped,      \* UniversityDetailScraper._scrape_single_university(url)
    dp_cleaned,      \* the pipeline's valid, cleaned records made from dp_scraped
    dp_pc,           \* "off" | "start" | "parsed" | "scraped" | "done"
    \* ---- ScrapingPipeline.run ----
    pl_scraper_type, \* config["scraper"]["type"]: which scraper __init__ created
    pl_limit,        \* self.limit (0 stands for None and for 0, both falsy)
    pl_save_html,    \* config["selenium"]["save_html"]
    pl_written,      \* kinds of the files written to output_dir, in order
    pl_result,       \* the dictionary run returns
    pl_pc,           \* "off" | "start" | "parse" | "done"
    \* ---- one ranking section of a detail page: label / value items ----
    cl_items,        \* the items of the section, in document order
    cl_parser,       \* UniversityDetailParser._extract_section_rankings result
    cl_scraper,      \* UniversityDetailScraper._extract_additional_rankings result
    cl_pc,           \* "off" | "start" | "parser" | "done"
    \* ---- one acquisition: scrape_rankings / _scrape_single_university ----
    wt_kind,         \* "off" | "rankings" | "detail"
    wt_pc,           \* "off" | "idle" | "navigating" | "waiting" | "success"
                     \* | "timeout_fallback" | "scrolling" | "read"
    wt_wait,         \* outcome of WebDriverWait(...).until: "" while not called
    wt_trace,        \* history: the phases gone through
    wt_out,          \* what the call returned or raised (None while running)
    page_height,     \* document.body.scrollHeight of the page in the session
    last_height,     \* local last_height of the scroll loop
    scrolls          \* history: passes through the scroll loop, up to MaxScrolls

sessVars == <<driver, nextSid, quitted, max_retries>>
mrVars == <<mr_pc, retry_count, mr_exc, navLog, sleeps>>
rbVars == <<university_urls, batch_size, rb_pc, rb_i, valid_urls, sc_j, results,
            batch_results, all_results, files, events>>
cbVars == <<heap, rankings_data, universities_data, uni_details, combined, cb_k,
            cb_pc, heap0>>
vdVars == <<v_urls, v_once, v_twice, v_pc>>
exVars == <<ex_fn, ex_text, ex_out, ex_warnings, ex_pc>>
rpVars == <<rp_content, rp_table, rp_i, universities, rp_log, rp_pc>>
dpVars == <<dp_url, dp_page, dp_parsed, dp_scraped, dp_cleaned, dp_pc>>
plVars == <<pl_scraper_type, pl_limit, pl_save_html, pl_written, pl_result, pl_pc>>
clVars == <<cl_items, cl_parser, cl_scraper, cl_pc>>
wtVars == <<wt_kind, wt_pc, wt_wait, wt_trace, wt_out, page_height, last_height, scrolls>>
lateVars == <<plVars, clVars, wtVars>>
baseVars == <<sessVars, mrVars, rbVars, cbVars, vdVars, exVars, dpVars>>
exceptPl == <<baseVars, clVars, wtVars>>
exceptCl == <<baseVars, rpVars, plVars, wtVars>>
exceptWt == <<mrVars, rbVars, cbVars, vdVars, exVars, dpVars, rpVars, plVars, clVars>>
extVars == <<vdVars, exVars, rpVars, dpVars, lateVars>>
vars == <<sessVars, mrVars, rbVars, cbVars, extVars>>

(***************************************************************************)
(* Bounds of the model                                                     *)
(***************************************************************************)
MaxRetriesBound == 3  \* max_retries ranges over 1..MaxRetriesBound
MaxUrls == 3          \* length of the URL list given to run_batch
MaxBatchSize == 2     \* batch_size ranges over 1..MaxBatchSize
MaxRanks == 2         \* rank entries given to combine_datasets
MaxDetails == 2       \* detail records given to combine_datasets

(***************************************************************************)
(* Program constants                                                       *)
(***************************************************************************)
DefaultMaxRetries == 3   \* config.get("max_retries", 3)
DefaultDelay == 2        \* config.get("request_delay", 2)
JsPause == 2             \* time.sleep(2) after driver.get

(***************************************************************************)
(* Generic helpers                                                         *)
(***************************************************************************)
RECURSIVE Pow2(_)
Pow2(n) == IF n = 0 THEN 1 ELSE 2 * Pow2(n - 1)

Min(a, b) == IF a < b THEN a ELSE b

RECURSIVE Concat(_, _, _)
\* the sequences ss[lo] .. ss[hi] one after the other
Concat(ss, lo, hi) ==
    IF lo > hi THEN <<>>
    ELSE IF lo = hi THEN ss[lo]
    ELSE Concat(ss, lo, (lo + hi) \div 2) \o Concat(ss, (lo + hi) \div 2 + 1, hi)
\* the sequences of ss one after the other (ss \o <<>> is ss, written out
\* once when ss is given as [k \in 1..n |-> ...])
Flatten(ss) ==
    LET all(written) == Concat(written, 1, Len(written)) IN all(ss \o <<>>)

(***************************************************************************)
(* Browser session                                                         *)
(***************************************************************************)
\* _initialize_driver, lines 40-63: both statements succeed; a statement up
\* to webdriver.Chrome(...) raises, so nothing is assigned; or
\* set_page_load_timeout raises after the new session has been assigned
InitOutcomes == {"ok", "chrome_raises", "setup_raises"}
QuitOutcomes == {"ok", "raised_dead", "raised_live"}
NavOutcomes == {"ok", "get_raises", "page_source_raises"}

\* _initialize_driver on handle d with outcome o: the handle afterwards
initialize_driver(d, o, fresh) ==
    IF d # 0 THEN d                          \* if self.driver: return
    ELSE IF o = "chrome_raises" THEN 0       \* self.driver stays None
    ELSE fresh                               \* self.driver = webdriver.Chrome(...)

\* whether that call raised ScraperException (the except clause, lines 61-63)
initialize_driver_raises(d, o) == d = 0 /\ o # "ok"

\* whether it created a session (line 57 was executed)
initialize_driver_creates(d, o) == d = 0 /\ o # "chrome_raises"

\* the sessions dead after self.driver.quit() with outcome q
quit_effect(d, q) ==
    IF q \in {"ok", "raised_dead"} THEN quitted \cup {d} ELSE quitted

\* driver.get(url) on handle d can only succeed on a live session
CanNavigate(d) == d # 0 /\ d \notin quitted

(***************************************************************************)
(* SeleniumBaseScraper._make_request                                       *)
(***************************************************************************)
\* lines 79-83: obtain a session when there is none, read max_retries
make_request_Enter ==
    /\ mr_pc = "idle"
    /\ \E o \in InitOutcomes :
         /\ driver' = initialize_driver(driver, o, nextSid)
         /\ nextSid' = IF initialize_driver_creates(driver, o)
                       THEN nextSid + 1 ELSE nextSid
         /\ IF initialize_driver_raises(driver, o)
            THEN mr_pc' = "raised" /\ mr_exc' = "ScraperException"
            ELSE mr_pc' = "loop" /\ mr_exc' = ""
    /\ retry_count' = 0
    /\ UNCHANGED <<quitted, max_retries, navLog, sleeps, rbVars, cbVars, extVars>>

try_sleeps_AlwaysPolite(out) ==
    CASE out = "get_raises" -> <<>>
      [] OTHER -> <<[kind |-> "js", secs |-> JsPause],
                    [kind |-> "polite", secs |-> DefaultDelay]>>

\* the sleeps of one pass through the try block, lines 88-97
try_sleeps(out) ==
    CASE out = "ok" -> <<[kind |-> "js", secs |-> JsPause],
                         [kind |-> "polite", secs |-> DefaultDelay]>>
      [] out = "page_source_raises" -> <<[kind |-> "js", secs |-> JsPause]>>
      [] OTHER -> <<>>

\* lines 85-99: one pass through the try block
make_request_Navigate ==
    /\ mr_pc = "loop"
    /\ retry_count < max_retries
    /\ \E out \in NavOutcomes :
         /\ (out # "get_raises") => CanNavigate(driver)
         /\ navLog' = Append(navLog, [sid |-> driver, ok |-> (out = "ok"),
                                      nextAt |-> nextSid])
         /\ sleeps' = sleeps \o try_sleeps(out)
         /\ mr_pc' = IF out = "ok" THEN "returned" ELSE "recover"
    /\ UNCHANGED <<sessVars, retry_count, mr_exc, rbVars, cbVars, extVars>>

\* the handle after the inner try block of the handler, lines 111-117
recover_driver(d, q, o, fresh) ==
    IF d # 0 /\ q # "ok" THEN d          \* quit() raised: nothing else runs
    ELSE initialize_driver(0, o, fresh)  \* self.driver = None; _initialize_driver()

\* lines 101-117: the except handler
make_request_Recover ==
    /\ mr_pc = "recover"
    /\ retry_count' = retry_count + 1
    /\ sleeps' = Append(sleeps, [kind |-> "backoff", secs |-> Pow2(retry_count + 1)])
    /\ \E q \in QuitOutcomes, o \in InitOutcomes :
         /\ (driver = 0) => q = "ok"
         /\ (driver # 0 /\ q # "ok") => o = "ok"
         /\ quitted' = IF driver # 0 THEN quit_effect(driver, q) ELSE quitted
         /\ driver' = recover_driver(driver, q, o, nextSid)
         /\ nextSid' = IF driver' = nextSid THEN nextSid + 1 ELSE nextSid
    /\ mr_pc' = "loop"
    /\ UNCHANGED <<max_retries, mr_exc, navLog, rbVars, cbVars, extVars>>

\* line 119: the loop condition failed
make_request_Exhausted ==
    /\ mr_pc = "loop"
    /\ ~(retry_count < max_retries)
    /\ mr_pc' = "raised"
    /\ mr_exc' = "ScraperException"
    /\ UNCHANGED <<sessVars, retry_count, navLog, sleeps, rbVars, cbVars, extVars>>

(***************************************************************************)
(* Texts.  A text is the sequence of its characters.  A printable ASCII    *)
(* character other than the grave accent, a tab, a newline, a carriage     *)
(* return and a form feed are written as themselves; every other character *)
(* is written "U+" followed by its code point in upper-case hexadecimal    *)
(* ("U+000B", "U+0060", "U+00A0", "U+0665", "U+2013").  The character      *)
(* classes are those of CPython 3.11.                                      *)
(***************************************************************************)
\* the characters of a text written as one string of ASCII characters
Chars(s) == [i \in 1..Len(s) |-> SubSeq(s, i, i)]

SetMin(S) == CHOOSE i \in S : \A j \in S : i <= j
SetMax(S) == CHOOSE i \in S : \A j \in S : j <= i

HexDigits == "0123456789ABCDEF"
hex_value(h) == (CHOOSE i \in 1..Len(HexDigits) : SubSeq(HexDigits, i, i) = h) - 1

RECURSIVE hex_number(_)
hex_number(s) ==
    IF Len(s) = 0 THEN 0
    ELSE 16 * hex_number(SubSeq(s, 1, Len(s) - 1)) + hex_value(SubSeq(s, Len(s), Len(s)))

\* the number written with six characters from position i of s on: six
\* digits, or a minus sign and five digits
number_at(s, i) ==
    LET digit(k) == hex_value(SubSeq(s, i + k, i + k))
        low == 10000 * digit(1) + 1000 * digit(2) + 100 * digit(3) + 10 * digit(4) + digit(5)
    IN  IF SubSeq(s, i, i) = "-" THEN 0 - low ELSE 100000 * digit(0) + low
\* a table of numbers written on lines, each line but the last as long as
\* the first, one space between two numbers
Numbers(lines) ==
    LET per == (Len(lines[1]) + 1) \div 7
        count == (Len(lines) - 1) * per + (Len(lines[Len(lines)]) + 1) \div 7
    IN  [k \in 1..count |-> number_at(lines[(k - 1) \div per + 1], 7 * ((k - 1) % per) + 1)]
            \o <<>>

RECURSIVE hex_string(_, _)
\* n in hexadecimal, at least `width` digits
hex_string(n, width) ==
    IF n = 0 /\ width <= 0 THEN ""
    ELSE hex_string(n \div 16, width - 1) \o SubSeq(HexDigits, (n % 16) + 1, (n % 16) + 1)

\* the characters U+0020 .. U+005F and U+0061 .. U+007E
AsciiBeforeGrave ==
    " !\"#$%&'()*+,-./0123456789:;<=>?@ABCDEFGHIJKLMNOPQRSTUVWXYZ[\\]^_"
AsciiAfterGrave == "abcdefghijklmnopqrstuvwxyz{|}~"

\* the characters written as themselves, and the code point of each
AsciiChars ==
    {"\t", "\n", "\f", "\r"}
        \cup {SubSeq(AsciiBeforeGrave, i, i) : i \in 1..Len(AsciiBeforeGrave)}
        \cup {SubSeq(AsciiAfterGrave, i, i) : i \in 1..Len(AsciiAfterGrave)}
AsciiCodes ==
    [c \in AsciiChars |->
        CASE c = "\t" -> 9
          [] c = "\n" -> 10
          [] c = "\f" -> 12
          [] c = "\r" -> 13
          [] \E i \in 1..Len(AsciiBeforeGrave) : SubSeq(AsciiBeforeGrave, i, i) = c ->
                 31 + (CHOOSE i \in 1..Len(AsciiBeforeGrave) :
                           SubSeq(AsciiBeforeGrave, i, i) = c)
          [] OTHER ->
                 96 + (CHOOSE i \in 1..Len(AsciiAfterGrave) :
                           SubSeq(AsciiAfterGrave, i, i) = c)]

is_escape(c) == Len(c) > 2 /\ SubSeq(c, 1, 2) = "U+"

\* ord(c); -1 for a string that is not one character
ord(c) ==
    IF c \in AsciiChars THEN AsciiCodes[c]
    ELSE IF is_escape(c) THEN hex_number(SubSeq(c, 3, Len(c)))
    ELSE 0 - 1

\* chr(n)
chr(n) ==
    IF n = 9 THEN "\t"
    ELSE IF n = 10 THEN "\n"
    ELSE IF n = 12 THEN "\f"
    ELSE IF n = 13 THEN "\r"
    ELSE IF n \in 32..95 THEN SubSeq(AsciiBeforeGrave, n - 31, n - 31)
    ELSE IF n \in 97..126 THEN SubSeq(AsciiAfterGrave, n - 96, n - 96)
    ELSE "U+" \o hex_string(n, 4)

\* str.isspace(): the characters str.strip() and \s take for whitespace
SpaceCodes ==
    (9..13) \cup (28..32) \cup {133, 160, 5760} \cup (8192..8202)
        \cup {8232, 8233, 8239, 8287, 12288}
isspace(c) == ord(c) \in SpaceCodes

\* the whitespace int() and float() skip at both ends: U+001C..U+001F are
\* whitespace for str.strip() but not for them
NumberSpaceCodes == SpaceCodes \ (28..31)
number_isspace(c) == ord(c) \in NumberSpaceCodes

\* unicodedata.decimal(c), -1 when c is no decimal digit: the characters
\* \d matches and int() and float() read as digits.  NdZeros are the code
\* points of the digits zero; the other nine digits of a script follow.
NdZeros ==
    {48, 1632, 1776, 1984, 2406, 2534, 2662, 2790, 2918, 3046, 3174, 3302,
     3430, 3558, 3664, 3792, 3872, 4160, 4240, 6112, 6160, 6470, 6608,
     6784, 6800, 6992, 7088, 7232, 7248, 42528, 43216, 43264, 43472, 43504,
     43600, 44016, 65296, 66720, 68912, 69734, 69872, 69942, 70096, 70384,
     70736, 70864, 71248, 71360, 71472, 71904, 72016, 72784, 73040, 73120,
     92768, 92864, 93008, 120782, 120792, 120802, 120812, 120822, 123200,
     123632, 125264, 130032}
decimal(c) ==
    LET digit(n, zeros) ==
            IF n < 128 THEN (IF 48 <= n /\ n <= 57 THEN n - 48 ELSE 0 - 1)
            ELSE IF \E z \in zeros : z <= n /\ n <= z + 9
            THEN n - SetMax({z \in zeros : z <= n})
            ELSE 0 - 1
    IN  digit(ord(c), NdZeros)
isdecimal(c) == decimal(c) >= 0

\* \w: str.isalnum() or "_".  WordBounds lists the first and the last code
\* point of every run of such characters above U+007F.
WordBounds ==
    Numbers(<<"000170 000170 000178 000179 000181 000181 000185 000186 000188",
              "000190 000192 000214 000216 000246 000248 000705 000710 000721",
              "000736 000740 000748 000748 000750 000750 000880 000884 000886",
              "000887 000890 000893 000895 000895 000902 000902 000904 000906",
              "000908 000908 000910 000929 000931 001013 001015 001153 001162",
              "001327 001329 001366 001369 001369 001376 001416 001488 001514",
              "001519 001522 001568 001610 001632 001641 001646 001647 001649",
              "001747 001749 001749 001765 001766 001774 001788 001791 001791",
              "001808 001808 001810 001839 001869 001957 001969 001969 001984",
              "002026 002036 002037 002042 002042 002048 002069 002074 002074",
              "002084 002084 002088 002088 002112 002136 002144 002154 002160",
              "002183 002185 002190 002208 002249 002308 002361 002365 002365",
              "002384 002384 002392 002401 002406 002415 002417 002432 002437",
              "002444 002447 002448 002451 002472 002474 002480 002482 002482",
              "002486 002489 002493 002493 002510 002510 002524 002525 002527",
              "002529 002534 002545 002548 002553 002556 002556 002565 002570",
              "002575 002576 002579 002600 002602 002608 002610 002611 002613",
              "002614 002616 002617 002649 002652 002654 002654 002662 002671",
              "002674 002676 002693 002701 002703 002705 002707 002728 002730",
              "002736 002738 002739 002741 002745 002749 002749 002768 002768",
              "002784 002785 002790 002799 002809 002809 002821 002828 002831",
              "002832 002835 002856 002858 002864 002866 002867 002869 002873",
              "002877 002877 002908 002909 002911 002913 002918 002927 002929",
              "002935 002947 002947 002949 002954 002958 002960 002962 002965",
              "002969 002970 002972 002972 002974 002975 002979 002980 002984",
              "002986 002990 003001 003024 003024 003046 003058 003077 003084",
              "003086 003088 003090 003112 003114 003129 003133 003133 003160",
              "003162 003165 003165 003168 003169 003174 003183 003192 003198",
              "003200 003200 003205 003212 003214 003216 003218 003240 003242",
              "003251 003253 003257 003261 003261 003293 003294 003296 003297",
              "003302 003311 003313 003314 003332 003340 003342 003344 003346",
              "003386 003389 003389 003406 003406 003412 003414 003416 003425",
              "003430 003448 003450 003455 003461 003478 003482 003505 003507",
              "003515 003517 003517 003520 003526 003558 003567 003585 003632",
              "003634 003635 003648 003654 003664 003673 003713 003714 003716",
              "003716 003718 003722 003724 003747 003749 003749 003751 003760",
              "003762 003763 003773 003773 003776 003780 003782 003782 003792",
              "003801 003804 003807 003840 003840 003872 003891 003904 003911",
              "003913 003948 003976 003980 004096 004138 004159 004169 004176",
              "004181 004186 004189 004193 004193 004197 004198 004206 004208",
              "004213 004225 004238 004238 004240 004249 004256 004293 004295",
              "004295 004301 004301 004304 004346 004348 004680 004682 004685",
              "004688 004694 004696 004696 004698 004701 004704 004744 004746",
              "004749 004752 004784 004786 004789 004792 004798 004800 004800",
              "004802 004805 004808 004822 004824 004880 004882 004885 004888",
              "004954 004969 004988 004992 005007 005024 005109 005112 005117",
              "005121 005740 005743 005759 005761 005786 005792 005866 005870",
              "005880 005888 005905 005919 005937 005952 005969 005984 005996",
              "005998 006000 006016 006067 006103 006103 006108 006108 006112",
              "006121 006128 006137 006160 006169 006176 006264 006272 006276",
              "006279 006312 006314 006314 006320 006389 006400 006430 006470",
              "006509 006512 006516 006528 006571 006576 006601 006608 006618",
              "006656 006678 006688 006740 006784 006793 006800 006809 006823",
              "006823 006917 006963 006981 006988 006992 007001 007043 007072",
              "007086 007141 007168 007203 007232 007241 007245 007293 007296",
              "007304 007312 007354 007357 007359 007401 007404 007406 007411",
              "007413 007414 007418 007418 007424 007615 007680 007957 007960",
              "007965 007968 008005 008008 008013 008016 008023 008025 008025",
              "008027 008027 008029 008029 008031 008061 008064 008116 008118",
              "008124 008126 008126 008130 008132 008134 008140 008144 008147",
              "008150 008155 008160 008172 008178 008180 008182 008188 008304",
              "008305 008308 008313 008319 008329 008336 008348 008450 008450",
              "008455 008455 008458 008467 008469 008469 008473 008477 008484",
              "008484 008486 008486 008488 008488 008490 008493 008495 008505",
              "008508 008511 008517 008521 008526 008526 008528 008585 009312",
              "009371 009450 009471 010102 010131 011264 011492 011499 011502",
              "011506 011507 011517 011517 011520 011557 011559 011559 011565",
              "011565 011568 011623 011631 011631 011648 011670 011680 011686",
              "011688 011694 011696 011702 011704 011710 011712 011718 011720",
              "011726 011728 011734 011736 011742 011823 011823 012293 012295",
              "012321 012329 012337 012341 012344 012348 012353 012438 012445",
              "012447 012449 012538 012540 012543 012549 012591 012593 012686",
              "012690 012693 012704 012735 012784 012799 012832 012841 012872",
              "012879 012881 012895 012928 012937 012977 012991 013312 019903",
              "019968 042124 042192 042237 042240 042508 042512 042539 042560",
              "042606 042623 042653 042656 042735 042775 042783 042786 042888",
              "042891 042954 042960 042961 042963 042963 042965 042969 042994",
              "043009 043011 043013 043015 043018 043020 043042 043056 043061",
              "043072 043123 043138 043187 043216 043225 043250 043255 043259",
              "043259 043261 043262 043264 043301 043312 043334 043360 043388",
              "043396 043442 043471 043481 043488 043492 043494 043518 043520",
              "043560 043584 043586 043588 043595 043600 043609 043616 043638",
              "043642 043642 043646 043695 043697 043697 043701 043702 043705",
              "043709 043712 043712 043714 043714 043739 043741 043744 043754",
              "043762 043764 043777 043782 043785 043790 043793 043798 043808",
              "043814 043816 043822 043824 043866 043868 043881 043888 044002",
              "044016 044025 044032 055203 055216 055238 055243 055291 063744",
              "064109 064112 064217 064256 064262 064275 064279 064285 064285",
              "064287 064296 064298 064310 064312 064316 064318 064318 064320",
              "064321 064323 064324 064326 064433 064467 064829 064848 064911",
              "064914 064967 065008 065019 065136 065140 065142 065276 065296",
              "065305 065313 065338 065345 065370 065382 065470 065474 065479",
              "065482 065487 065490 065495 065498 065500 065536 065547 065549",
              "065574 065576 065594 065596 065597 065599 065613 065616 065629",
              "065664 065786 065799 065843 065856 065912 065930 065931 066176",
              "066204 066208 066256 066273 066299 066304 066339 066349 066378",
              "066384 066421 066432 066461 066464 066499 066504 066511 066513",
              "066517 066560 066717 066720 066729 066736 066771 066776 066811",
              "066816 066855 066864 066915 066928 066938 066940 066954 066956",
              "066962 066964 066965 066967 066977 066979 066993 066995 067001",
              "067003 067004 067072 067382 067392 067413 067424 067431 067456",
              "067461 067463 067504 067506 067514 067584 067589 067592 067592",
              "067594 067637 067639 067640 067644 067644 067647 067669 067672",
              "067702 067705 067742 067751 067759 067808 067826 067828 067829",
              "067835 067867 067872 067897 067968 068023 068028 068047 068050",
              "068096 068112 068115 068117 068119 068121 068149 068160 068168",
              "068192 068222 068224 068255 068288 068295 068297 068324 068331",
              "068335 068352 068405 068416 068437 068440 068466 068472 068497",
              "068521 068527 068608 068680 068736 068786 068800 068850 068858",
              "068899 068912 068921 069216 069246 069248 069289 069296 069297",
              "069376 069415 069424 069445 069457 069460 069488 069505 069552",
              "069579 069600 069622 069635 069687 069714 069743 069745 069746",
              "069749 069749 069763 069807 069840 069864 069872 069881 069891",
              "069926 069942 069951 069956 069956 069959 069959 069968 070002",
              "070006 070006 070019 070066 070081 070084 070096 070106 070108",
              "070108 070113 070132 070144 070161 070163 070187 070272 070278",
              "070280 070280 070282 070285 070287 070301 070303 070312 070320",
              "070366 070384 070393 070405 070412 070415 070416 070419 070440",
              "070442 070448 070450 070451 070453 070457 070461 070461 070480",
              "070480 070493 070497 070656 070708 070727 070730 070736 070745",
              "070751 070753 070784 070831 070852 070853 070855 070855 070864",
              "070873 071040 071086 071128 071131 071168 071215 071236 071236",
              "071248 071257 071296 071338 071352 071352 071360 071369 071424",
              "071450 071472 071483 071488 071494 071680 071723 071840 071922",
              "071935 071942 071945 071945 071948 071955 071957 071958 071960",
              "071983 071999 071999 072001 072001 072016 072025 072096 072103",
              "072106 072144 072161 072161 072163 072163 072192 072192 072203",
              "072242 072250 072250 072272 072272 072284 072329 072349 072349",
              "072368 072440 072704 072712 072714 072750 072768 072768 072784",
              "072812 072818 072847 072960 072966 072968 072969 072971 073008",
              "073030 073030 073040 073049 073056 073061 073063 073064 073066",
              "073097 073112 073112 073120 073129 073440 073458 073648 073648",
              "073664 073684 073728 074649 074752 074862 074880 075075 077712",
              "077808 077824 078894 082944 083526 092160 092728 092736 092766",
              "092768 092777 092784 092862 092864 092873 092880 092909 092928",
              "092975 092992 092995 093008 093017 093019 093025 093027 093047",
              "093053 093071 093760 093846 093952 094026 094032 094032 094099",
              "094111 094176 094177 094179 094179 094208 100343 100352 101589",
              "101632 101640 110576 110579 110581 110587 110589 110590 110592",
              "110882 110928 110930 110948 110951 110960 111355 113664 113770",
              "113776 113788 113792 113800 113808 113817 119520 119539 119648",
              "119672 119808 119892 119894 119964 119966 119967 119970 119970",
              "119973 119974 119977 119980 119982 119993 119995 119995 119997",
              "120003 120005 120069 120071 120074 120077 120084 120086 120092",
              "120094 120121 120123 120126 120128 120132 120134 120134 120138",
              "120144 120146 120485 120488 120512 120514 120538 120540 120570",
              "120572 120596 120598 120628 120630 120654 120656 120686 120688",
              "120712 120714 120744 120746 120770 120772 120779 120782 120831",
              "122624 122654 123136 123180 123191 123197 123200 123209 123214",
              "123214 123536 123565 123584 123627 123632 123641 124896 124902",
              "124904 124907 124909 124910 124912 124926 124928 125124 125127",
              "125135 125184 125251 125259 125259 125264 125273 126065 126123",
              "126125 126127 126129 126132 126209 126253 126255 126269 126464",
              "126467 126469 126495 126497 126498 126500 126500 126503 126503",
              "126505 126514 126516 126519 126521 126521 126523 126523 126530",
              "126530 126535 126535 126537 126537 126539 126539 126541 126543",
              "126545 126546 126548 126548 126551 126551 126553 126553 126555",
              "126555 126557 126557 126559 126559 126561 126562 126564 126564",
              "126567 126570 126572 126578 126580 126583 126585 126588 126590",
              "126590 126592 126601 126603 126619 126625 126627 126629 126633",
              "126635 126651 127232 127244 130032 130041 131072 173791 173824",
              "177976 177984 178205 178208 183969 183984 191456 194560 195101",
              "196608 201546">>)

is_word(c) ==
    LET word(n, bounds) ==
            \/ 48 <= n /\ n <= 57
            \/ 65 <= n /\ n <= 90
            \/ n = 95
            \/ 97 <= n /\ n <= 122
            \/ /\ n > 127
               /\ \E k \in 1..(Len(bounds) \div 2) :
                      bounds[2 * k - 1] <= n /\ n <= bounds[2 * k]
    IN  word(ord(c), WordBounds)

\* str.lower() of one character.  LowerRules lists, for every run of
\* characters above U+007F that str.lower() changes, the first and the last
\* code point, the distance between two characters of the run, and what is
\* added to the code point; U+0130 alone becomes two characters.
LowerRules ==
    Numbers(<<"000192 000214 000001 000032 000216 000222 000001 000032 000256",
              "000302 000002 000001 000306 000310 000002 000001 000313 000327",
              "000002 000001 000330 000374 000002 000001 000376 000376 000001",
              "-00121 000377 000381 000002 000001 000385 000385 000001 000210",
              "000386 000388 000002 000001 000390 000390 000001 000206 000391",
              "000391 000001 000001 000393 000394 000001 000205 000395 000395",
              "000001 000001 000398 000398 000001 000079 000399 000399 000001",
              "000202 000400 000400 000001 000203 000401 000401 000001 000001",
              "000403 000403 000001 000205 000404 000404 000001 000207 000406",
              "000406 000001 000211 000407 000407 000001 000209 000408 000408",
              "000001 000001 000412 000412 000001 000211 000413 000413 000001",
              "000213 000415 000415 000001 000214 000416 000420 000002 000001",
              "000422 000422 000001 000218 000423 000423 000001 000001 000425",
              "000425 000001 000218 000428 000428 000001 000001 000430 000430",
              "000001 000218 000431 000431 000001 000001 000433 000434 000001",
              "000217 000435 000437 000002 000001 000439 000439 000001 000219",
              "000440 000440 000001 000001 000444 000444 000001 000001 000452",
              "000452 000001 000002 000453 000453 000001 000001 000455 000455",
              "000001 000002 000456 000456 000001 000001 000458 000458 000001",
              "000002 000459 000475 000002 000001 000478 000494 000002 000001",
              "000497 000497 000001 000002 000498 000500 000002 000001 000502",
              "000502 000001 -00097 000503 000503 000001 -00056 000504 000542",
              "000002 000001 000544 000544 000001 -00130 000546 000562 000002",
              "000001 000570 000570 000001 010795 000571 000571 000001 000001",
              "000573 000573 000001 -00163 000574 000574 000001 010792 000577",
              "000577 000001 000001 000579 000579 000001 -00195 000580 000580",
              "000001 000069 000581 000581 000001 000071 000582 000590 000002",
              "000001 000880 000882 000002 000001 000886 000886 000001 000001",
              "000895 000895 000001 000116 000902 000902 000001 000038 000904",
              "000906 000001 000037 000908 000908 000001 000064 000910 000911",
              "000001 000063 000913 000929 000001 000032 000931 000939 000001",
              "000032 000975 000975 000001 000008 000984 001006 000002 000001",
              "001012 001012 000001 -00060 001015 001015 000001 000001 001017",
              "001017 000001 -00007 001018 001018 000001 000001 001021 001023",
              "000001 -00130 001024 001039 000001 000080 001040 001071 000001",
              "000032 001120 001152 000002 000001 001162 001214 000002 000001",
              "001216 001216 000001 000015 001217 001229 000002 000001 001232",
              "001326 000002 000001 001329 001366 000001 000048 004256 004293",
              "000001 007264 004295 004295 000001 007264 004301 004301 000001",
              "007264 005024 005103 000001 038864 005104 005109 000001 000008",
              "007312 007354 000001 -03008 007357 007359 000001 -03008 007680",
              "007828 000002 000001 007838 007838 000001 -07615 007840 007934",
              "000002 000001 007944 007951 000001 -00008 007960 007965 000001",
              "-00008 007976 007983 000001 -00008 007992 007999 000001 -00008",
              "008008 008013 000001 -00008 008025 008031 000002 -00008 008040",
              "008047 000001 -00008 008072 008079 000001 -00008 008088 008095",
              "000001 -00008 008104 008111 000001 -00008 008120 008121 000001",
              "-00008 008122 008123 000001 -00074 008124 008124 000001 -00009",
              "008136 008139 000001 -00086 008140 008140 000001 -00009 008152",
              "008153 000001 -00008 008154 008155 000001 -00100 008168 008169",
              "000001 -00008 008170 008171 000001 -00112 008172 008172 000001",
              "-00007 008184 008185 000001 -00128 008186 008187 000001 -00126",
              "008188 008188 000001 -00009 008486 008486 000001 -07517 008490",
              "008490 000001 -08383 008491 008491 000001 -08262 008498 008498",
              "000001 000028 008544 008559 000001 000016 008579 008579 000001",
              "000001 009398 009423 000001 000026 011264 011311 000001 000048",
              "011360 011360 000001 000001 011362 011362 000001 -10743 011363",
              "011363 000001 -03814 011364 011364 000001 -10727 011367 011371",
              "000002 000001 011373 011373 000001 -10780 011374 011374 000001",
              "-10749 011375 011375 000001 -10783 011376 011376 000001 -10782",
              "011378 011378 000001 000001 011381 011381 000001 000001 011390",
              "011391 000001 -10815 011392 011490 000002 000001 011499 011501",
              "000002 000001 011506 011506 000001 000001 042560 042604 000002",
              "000001 042624 042650 000002 000001 042786 042798 000002 000001",
              "042802 042862 000002 000001 042873 042875 000002 000001 042877",
              "042877 000001 -35332 042878 042886 000002 000001 042891 042891",
              "000001 000001 042893 042893 000001 -42280 042896 042898 000002",
              "000001 042902 042920 000002 000001 042922 042922 000001 -42308",
              "042923 042923 000001 -42319 042924 042924 000001 -42315 042925",
              "042925 000001 -42305 042926 042926 000001 -42308 042928 042928",
              "000001 -42258 042929 042929 000001 -42282 042930 042930 000001",
              "-42261 042931 042931 000001 000928 042932 042946 000002 000001",
              "042948 042948 000001 -00048 042949 042949 000001 -42307 042950",
              "042950 000001 -35384 042951 042953 000002 000001 042960 042960",
              "000001 000001 042966 042968 000002 000001 042997 042997 000001",
              "000001 065313 065338 000001 000032 066560 066599 000001 000040",
              "066736 066771 000001 000040 066928 066938 000001 000039 066940",
              "066954 000001 000039 066956 066962 000001 000039 066964 066965",
              "000001 000039 068736 068786 000001 000064 071840 071871 000001",
              "000032 093760 093791 000001 000032 125184 125217 000001 000034">>)

lower_code(n) ==
    LET applies(rules, k) ==
            /\ rules[4 * k - 3] <= n
            /\ n <= rules[4 * k - 2]
            /\ (n - rules[4 * k - 3]) % rules[4 * k - 1] = 0
        lowered(rules) ==
            IF \E k \in 1..(Len(rules) \div 4) : applies(rules, k)
            THEN n + rules[4 * (CHOOSE k \in 1..(Len(rules) \div 4) : applies(rules, k))]
            ELSE n
    IN  IF n \in 65..90 THEN n + 32
        ELSE IF n > 127 THEN lowered(LowerRules)
        ELSE n
lower_char(c) ==
    LET low(n) ==
            IF n < 0 \/ (n < 128 /\ ~(65 <= n /\ n <= 90)) THEN <<c>>
            ELSE IF n = 304 THEN <<"i", "U+0307">>
            ELSE <<chr(lower_code(n))>>
    IN  low(ord(c))

\* is n within one of the runs listed as first and last code points
in_bounds(n, bounds) ==
    \E k \in 1..(Len(bounds) \div 2) : bounds[2 * k - 1] <= n /\ n <= bounds[2 * k]

\* the characters str.lower() skips when it looks around a capital sigma
\* (case-ignorable), and the other cased characters
CaseIgnorableBounds ==
    Numbers(<<"000039 000039 000046 000046 000058 000058 000094 000094 000096",
              "000096 000168 000168 000173 000173 000175 000175 000180 000180",
              "000183 000184 000688 000879 000884 000885 000890 000890 000900",
              "000901 000903 000903 001155 001161 001369 001369 001375 001375",
              "001425 001469 001471 001471 001473 001474 001476 001477 001479",
              "001479 001524 001524 001536 001541 001552 001562 001564 001564",
              "001600 001600 001611 001631 001648 001648 001750 001757 001759",
              "001768 001770 001773 001807 001807 001809 001809 001840 001866",
              "001958 001968 002027 002037 002042 002042 002045 002045 002070",
              "002093 002137 002139 002184 002184 002192 002193 002200 002207",
              "002249 002306 002362 002362 002364 002364 002369 002376 002381",
              "002381 002385 002391 002402 002403 002417 002417 002433 002433",
              "002492 002492 002497 002500 002509 002509 002530 002531 002558",
              "002558 002561 002562 002620 002620 002625 002626 002631 002632",
              "002635 002637 002641 002641 002672 002673 002677 002677 002689",
              "002690 002748 002748 002753 002757 002759 002760 002765 002765",
              "002786 002787 002810 002815 002817 002817 002876 002876 002879",
              "002879 002881 002884 002893 002893 002901 002902 002914 002915",
              "002946 002946 003008 003008 003021 003021 003072 003072 003076",
              "003076 003132 003132 003134 003136 003142 003144 003146 003149",
              "003157 003158 003170 003171 003201 003201 003260 003260 003263",
              "003263 003270 003270 003276 003277 003298 003299 003328 003329",
              "003387 003388 003393 003396 003405 003405 003426 003427 003457",
              "003457 003530 003530 003538 003540 003542 003542 003633 003633",
              "003636 003642 003654 003662 003761 003761 003764 003772 003782",
              "003782 003784 003789 003864 003865 003893 003893 003895 003895",
              "003897 003897 003953 003966 003968 003972 003974 003975 003981",
              "003991 003993 004028 004038 004038 004141 004144 004146 004151",
              "004153 004154 004157 004158 004184 004185 004190 004192 004209",
              "004212 004226 004226 004229 004230 004237 004237 004253 004253",
              "004348 004348 004957 004959 005906 005908 005938 005939 005970",
              "005971 006002 006003 006068 006069 006071 006077 006086 006086",
              "006089 006099 006103 006103 006109 006109 006155 006159 006211",
              "006211 006277 006278 006313 006313 006432 006434 006439 006440",
              "006450 006450 006457 006459 006679 006680 006683 006683 006742",
              "006742 006744 006750 006752 006752 006754 006754 006757 006764",
              "006771 006780 006783 006783 006823 006823 006832 006862 006912",
              "006915 006964 006964 006966 006970 006972 006972 006978 006978",
              "007019 007027 007040 007041 007074 007077 007080 007081 007083",
              "007085 007142 007142 007144 007145 007149 007149 007151 007153",
              "007212 007219 007222 007223 007288 007293 007376 007378 007380",
              "007392 007394 007400 007405 007405 007412 007412 007416 007417",
              "007468 007530 007544 007544 007579 007679 008125 008125 008127",
              "008129 008141 008143 008157 008159 008173 008175 008189 008190",
              "008203 008207 008216 008217 008228 008228 008231 008231 008234",
              "008238 008288 008292 008294 008303 008305 008305 008319 008319",
              "008336 008348 008400 008432 011388 011389 011503 011505 011631",
              "011631 011647 011647 011744 011775 011823 011823 012293 012293",
              "012330 012333 012337 012341 012347 012347 012441 012446 012540",
              "012542 040981 040981 042232 042237 042508 042508 042607 042610",
              "042612 042621 042623 042623 042652 042655 042736 042737 042752",
              "042785 042864 042864 042888 042890 042994 042996 043000 043001",
              "043010 043010 043014 043014 043019 043019 043045 043046 043052",
              "043052 043204 043205 043232 043249 043263 043263 043302 043309",
              "043335 043345 043392 043394 043443 043443 043446 043449 043452",
              "043453 043471 043471 043493 043494 043561 043566 043569 043570",
              "043573 043574 043587 043587 043596 043596 043632 043632 043644",
              "043644 043696 043696 043698 043700 043703 043704 043710 043711",
              "043713 043713 043741 043741 043756 043757 043763 043764 043766",
              "043766 043867 043871 043881 043883 044005 044005 044008 044008",
              "044013 044013 064286 064286 064434 064450 065024 065039 065043",
              "065043 065056 065071 065106 065106 065109 065109 065279 065279",
              "065287 065287 065294 065294 065306 065306 065342 065342 065344",
              "065344 065392 065392 065438 065439 065507 065507 065529 065531",
              "066045 066045 066272 066272 066422 066426 067456 067461 067463",
              "067504 067506 067514 068097 068099 068101 068102 068108 068111",
              "068152 068154 068159 068159 068325 068326 068900 068903 069291",
              "069292 069446 069456 069506 069509 069633 069633 069688 069702",
              "069744 069744 069747 069748 069759 069761 069811 069814 069817",
              "069818 069821 069821 069826 069826 069837 069837 069888 069890",
              "069927 069931 069933 069940 070003 070003 070016 070017 070070",
              "070078 070089 070092 070095 070095 070191 070193 070196 070196",
              "070198 070199 070206 070206 070367 070367 070371 070378 070400",
              "070401 070459 070460 070464 070464 070502 070508 070512 070516",
              "070712 070719 070722 070724 070726 070726 070750 070750 070835",
              "070840 070842 070842 070847 070848 070850 070851 071090 071093",
              "071100 071101 071103 071104 071132 071133 071219 071226 071229",
              "071229 071231 071232 071339 071339 071341 071341 071344 071349",
              "071351 071351 071453 071455 071458 071461 071463 071467 071727",
              "071735 071737 071738 071995 071996 071998 071998 072003 072003",
              "072148 072151 072154 072155 072160 072160 072193 072202 072243",
              "072248 072251 072254 072263 072263 072273 072278 072281 072283",
              "072330 072342 072344 072345 072752 072758 072760 072765 072767",
              "072767 072850 072871 072874 072880 072882 072883 072885 072886",
              "073009 073014 073018 073018 073020 073021 073023 073029 073031",
              "073031 073104 073105 073109 073109 073111 073111 073459 073460",
              "078896 078904 092912 092916 092976 092982 092992 092995 094031",
              "094031 094095 094111 094176 094177 094179 094180 110576 110579",
              "110581 110587 110589 110590 113821 113822 113824 113827 118528",
              "118573 118576 118598 119143 119145 119155 119170 119173 119179",
              "119210 119213 119362 119364 121344 121398 121403 121452 121461",
              "121461 121476 121476 121499 121503 121505 121519 122880 122886",
              "122888 122904 122907 122913 122915 122916 122918 122922 123184",
              "123197 123566 123566 123628 123631 125136 125142 125252 125259",
              "127995 127999 917505 917505 917536 917631 917760 917999">>)
case_ignorable(c) == in_bounds(ord(c), CaseIgnorableBounds)
CasedBounds ==
    Numbers(<<"000065 000090 000097 000122 000170 000170 000181 000181 000186",
              "000186 000192 000214 000216 000246 000248 000442 000444 000447",
              "000452 000659 000661 000687 000880 000883 000886 000887 000891",
              "000893 000895 000895 000902 000902 000904 000906 000908 000908",
              "000910 000929 000931 001013 001015 001153 001162 001327 001329",
              "001366 001376 001416 004256 004293 004295 004295 004301 004301",
              "004304 004346 004349 004351 005024 005109 005112 005117 007296",
              "007304 007312 007354 007357 007359 007424 007467 007531 007543",
              "007545 007578 007680 007957 007960 007965 007968 008005 008008",
              "008013 008016 008023 008025 008025 008027 008027 008029 008029",
              "008031 008061 008064 008116 008118 008124 008126 008126 008130",
              "008132 008134 008140 008144 008147 008150 008155 008160 008172",
              "008178 008180 008182 008188 008450 008450 008455 008455 008458",
              "008467 008469 008469 008473 008477 008484 008484 008486 008486",
              "008488 008488 008490 008493 008495 008500 008505 008505 008508",
              "008511 008517 008521 008526 008526 008544 008575 008579 008580",
              "009398 009449 011264 011387 011390 011492 011499 011502 011506",
              "011507 011520 011557 011559 011559 011565 011565 042560 042605",
              "042624 042651 042786 042863 042865 042887 042891 042894 042896",
              "042954 042960 042961 042963 042963 042965 042969 042997 042998",
              "043002 043002 043824 043866 043872 043880 043888 043967 064256",
              "064262 064275 064279 065313 065338 065345 065370 066560 066639",
              "066736 066771 066776 066811 066928 066938 066940 066954 066956",
              "066962 066964 066965 066967 066977 066979 066993 066995 067001",
              "067003 067004 068736 068786 068800 068850 071840 071903 093760",
              "093823 119808 119892 119894 119964 119966 119967 119970 119970",
              "119973 119974 119977 119980 119982 119993 119995 119995 119997",
              "120003 120005 120069 120071 120074 120077 120084 120086 120092",
              "120094 120121 120123 120126 120128 120132 120134 120134 120138",
              "120144 120146 120485 120488 120512 120514 120538 120540 120570",
              "120572 120596 120598 120628 120630 120654 120656 120686 120688",
              "120712 120714 120744 120746 120770 120772 120779 122624 122633",
              "122635 122654 125184 125251 127280 127305 127312 127337 127344",
              "127369">>)
is_cased(c) == in_bounds(ord(c), CasedBounds)

\* U+03A3 at position i becomes the final sigma U+03C2: a cased character
\* stands before it and none after it, case-ignorable characters set aside
final_sigma(text, i) ==
    LET before == {j \in 1..(i - 1) : ~case_ignorable(text[j])}
        after == {j \in (i + 1)..Len(text) : ~case_ignorable(text[j])}
    IN  /\ before # {}
        /\ is_cased(text[SetMax(before)])
        /\ (after = {} \/ ~is_cased(text[SetMin(after)]))

\* c.lower() for one ASCII letter
ascii_lower(c) == IF ord(c) \in 65..90 THEN chr(ord(c) + 32) ELSE c

\* \s+ replaced by one space
collapse_spaces(text) ==
    Flatten([i \in 1..Len(text) |->
                IF ~isspace(text[i]) THEN <<text[i]>>
                ELSE IF i > 1 /\ isspace(text[i - 1]) THEN <<>>
                ELSE <<" ">>])

\* str.lower()
lower(text) ==
    Flatten([i \in 1..Len(text) |->
                IF ord(text[i]) = 931 /\ final_sigma(text, i) THEN <<"U+03C2">>
                ELSE lower_char(text[i])])

\* does c match the letter l of a pattern compiled with re.IGNORECASE
matches_letter(c, l) ==
    \/ lower_char(c) = <<l>>
    \/ l = "i" /\ ord(c) \in {304, 305}
    \/ l = "s" /\ ord(c) = 383

strip_OneEach(u) ==
    LET l == IF u # <<>> /\ isspace(Head(u)) THEN Tail(u) ELSE u
    IN  IF l # <<>> /\ isspace(l[Len(l)]) THEN SubSeq(l, 1, Len(l) - 1) ELSE l

\* str.strip()
strip(u) ==
    LET kept == {i \in 1..Len(u) : ~isspace(u[i])}
    IN  IF kept = {} THEN <<>> ELSE SubSeq(u, SetMin(kept), SetMax(kept))

\* str.split(sep) for a separator of one character: a piece starts at the
\* start of the text and after every separator, and ends before the next
\* separator
split(text, sep) ==
    LET piece(p) ==
            SubSeq(text, p, SetMin({i \in p..(Len(text) + 1) :
                                       i > Len(text) \/ text[i] = sep}) - 1)
    IN  Flatten([p \in 1..(Len(text) + 1) |->
                    IF p = 1 \/ text[p - 1] = sep THEN <<piece(p)>> ELSE <<>>])

\* sep.join(texts)
join(texts, sep) ==
    Flatten([k \in 1..Len(texts) |-> IF k = 1 THEN texts[k] ELSE sep \o texts[k]])

\* [line.strip() for line in text.split("\n") if line.strip()]
stripped_lines(text) ==
    LET lines == split(text, "\n")
    IN  SelectSeq([k \in 1..Len(lines) |-> strip(lines[k])], LAMBDA line : line # <<>>)

\* needle in text, for texts
has_text(text, needle) ==
    \E i \in 0..(Len(text) - Len(needle)) : SubSeq(text, i + 1, i + Len(needle)) = needle

(***************************************************************************)
(* Markup.  A node of a parsed document is a text node or an element with  *)
(* a tag, attributes and child nodes.  The attributes are a record: class  *)
(* is the set of class names, id, href and testid (the attribute           *)
(* data-testid) are texts.                                                 *)
(***************************************************************************)
NoAttrs == [a \in {} |-> <<>>]
Text(t) == [text |-> t]
Element(tag, attrs, children) == [tag |-> tag, attrs |-> attrs, children |-> children]

is_text(n) == "text" \in DOMAIN n
is_tag(n, tag) == ~is_text(n) /\ n.tag = tag
has_attr(n, a) == ~is_text(n) /\ a \in DOMAIN n.attrs
has_class(n, c) == has_attr(n, "class") /\ c \in n.attrs.class

RECURSIVE nodes(_)
\* n and the nodes below it, in document order
nodes(n) ==
    <<n>> \o (IF is_text(n) THEN <<>>
             ELSE Flatten([k \in 1..Len(n.children) |-> nodes(n.children[k])]))

RECURSIVE strings(_)
\* the texts of the text nodes of n, in document order
strings(n) ==
    IF is_text(n) THEN <<n.text>>
    ELSE Flatten([k \in 1..Len(n.children) |-> strings(n.children[k])])

\* Tag.text: the text nodes below n, one after the other
text_of(n) == Flatten(strings(n))

\* the first of a set of positions, 0 when there is none
first_of(matching) == IF matching = {} THEN 0 ELSE SetMin(matching)

\* tag.find(name): position in nodes(n) of the first element below n with
\* this tag, and of the first that also has the class
find_tag(n, tag) ==
    LET D == nodes(n) IN first_of({i \in 2..Len(D) : is_tag(D[i], tag)})
find_class(n, tag, class) ==
    LET D == nodes(n)
    IN  first_of({i \in 2..Len(D) : is_tag(D[i], tag) /\ has_class(D[i], class)})

(***************************************************************************)
(* URLs.  A URL is written as the sequence of its pieces, a piece being a  *)
(* run of printable ASCII characters without whitespace, or one character  *)
(* as in a text; a list entry that is not a string is NonString.           *)
(***************************************************************************)
NonString == <<"<not-a-str>">>

UrlOxford == <<"https://", "www.timeshighereducation.com",
               "/world-university-rankings/", "oxford">>
UrlMit == <<"https://", "www.timeshighereducation.com",
            "/world-university-rankings/", "mit">>
UrlOther == <<"https://", "example.org", "/news/">>
UrlPadded == <<" ">> \o UrlOxford \o <<" ">>
UrlPool == {UrlOxford, UrlMit, UrlOther, UrlPadded}

\* the characters of the pieces, one after the other
joined(u) == IF u = <<>> THEN "" ELSE Concat(u, 1, Len(u))

\* str.startswith(prefix) and `needle in text` on a string of ASCII characters
startswith(text, prefix) ==
    Len(text) >= Len(prefix) /\ SubSeq(text, 1, Len(prefix)) = prefix
contains(text, needle) ==
    \E i \in 0..(Len(text) - Len(needle)) : SubSeq(text, i + 1, i + Len(needle)) = needle

\* the loop body of _validate_urls: does the entry survive
url_is_valid(u) ==
    /\ u # NonString
    /\ startswith(joined(strip(u)), "http")
    /\ contains(joined(strip(u)), "timeshighereducation.com")
    /\ contains(joined(strip(u)), "/world-university-rankings/")

RECURSIVE validate_urls(_)
validate_urls(urls) ==
    IF urls = <<>> THEN <<>>
    ELSE IF url_is_valid(Head(urls))
         THEN <<strip(Head(urls))>> \o validate_urls(Tail(urls))
         ELSE validate_urls(Tail(urls))

(***************************************************************************)
(* Detail pages: what the extraction methods find on the page of a URL     *)
(***************************************************************************)
EmptyMapping == [k \in {} |-> <<>>]

page_name(u) ==
    IF u = UrlOxford THEN Chars("University of Oxford") ELSE Chars("Unknown")
\* _extract_ranking_data: every value it stores is a non-empty match
page_ranking_data(u) ==
    IF u = UrlOxford THEN [overall_score |-> Chars("98.5")] ELSE EmptyMapping
\* _extract_key_stats; _extract_stats_from_section lines 770-775 store the
\* second line of an item's text as it is: "Number of students\n 21,750 \nx"
\* and "Founded\n \nx" give a padded and a blank value
page_key_stats(u) ==
    IF u = UrlOxford THEN [number_of_students |-> Chars(" 21,750 "), founded |-> Chars(" ")]
    ELSE EmptyMapping
\* _extract_subjects_data: a subject is appended only `if subject_name`
page_subjects(u) ==
    IF u = UrlOxford THEN <<[category |-> Chars("Law"), name |-> Chars("Law")]>>
    ELSE <<>>

ScrapeOutcomes == {"ok", "get_raises", "extract_raises"}
\* _save_results and _save_batch_results: both succeed, open() raises, or
\* json.dump raises after open() has created the file
SaveOutcomes == {"ok", "open_raises", "dump_raises"}

\* what `with open(output_file, "w") as f: json.dump(content, f)` leaves
\* in the output directory: the whole list, nothing, or a file that holds
\* only the part of the text of the list written before the failure
saved_file(kind, num, content, out) ==
    CASE out = "ok" ->
             <<[kind |-> kind, num |-> num, data |-> content, complete |-> TRUE]>>
      [] out = "open_raises" -> <<>>
      [] out = "dump_raises" ->
             <<[kind |-> kind, num |-> num, data |-> content, complete |-> FALSE]>>

scrape_single_university_ErrorWithoutUrl(url, out) ==
    IF out = "ok"
    THEN [url |-> url, name |-> page_name(url),
          ranking_data |-> page_ranking_data(url),
          key_stats |-> page_key_stats(url),
          subjects |-> page_subjects(url),
          scrape_timestamp |-> "t"]
    ELSE [url |-> <<>>, error |-> out, scrape_timestamp |-> "t"]

\* _scrape_single_university: the dictionary returned for url with outcome out
scrape_single_university(url, out) ==
    IF out = "ok"
    THEN [url |-> url, name |-> page_name(url),
          ranking_data |-> page_ranking_data(url),
          key_stats |-> page_key_stats(url),
          subjects |-> page_subjects(url),
          scrape_timestamp |-> "t"]
    ELSE [url |-> url, error |-> out, scrape_timestamp |-> "t"]

\* not uni_data.get(field) for the two required fields
field_missing(uni_data, f) ==
    \/ f \notin DOMAIN uni_data
    \/ uni_data[f] = <<>>

\* the validity test that only asks for a url: a faulty filter
is_valid_university_data_UrlOnly(uni_data) == ~field_missing(uni_data, "url")

\* _is_valid_university_data
is_valid_university_data(uni_data) ==
    /\ "error" \notin DOMAIN uni_data
    /\ \A f \in {"url", "name"} : ~field_missing(uni_data, f)

\* the loops of _clean_university_data, lines 275-288: drop the blank
\* values, store str(value).strip() for the others
clean_mapping(m) ==
    [k \in {x \in DOMAIN m : strip(m[x]) # <<>>} |-> strip(m[k])]

RECURSIVE clean_subjects(_)
clean_subjects(subs) ==
    IF subs = <<>> THEN <<>>
    ELSE IF Head(subs).name # <<>> THEN <<Head(subs)>> \o clean_subjects(Tail(subs))
         ELSE clean_subjects(Tail(subs))

\* _clean_university_data
clean_university_data(uni_data) ==
    [k \in DOMAIN uni_data |->
        CASE k \in {"name", "url"} -> strip(uni_data[k])
          [] k = "ranking_data" -> clean_mapping(uni_data[k])
          [] k = "key_stats" -> clean_mapping(uni_data[k])
          [] k = "subjects" -> clean_subjects(uni_data[k])
          [] OTHER -> uni_data[k]]

RECURSIVE process_scraped(_)
\* run, lines 81-90: keep and clean the valid records
process_scraped(scraped) ==
    IF scraped = <<>> THEN <<>>
    ELSE IF is_valid_university_data(Head(scraped))
         THEN <<clean_university_data(Head(scraped))>> \o process_scraped(Tail(scraped))
         ELSE process_scraped(Tail(scraped))

(***************************************************************************)
(* UniversityDetailPipeline.run_batch, with run and                        *)
(* UniversityDetailScraper.scrape_university_details inlined               *)
(***************************************************************************)
\* a slice that stops one element early: a faulty slice
batch_slice_Short(urls, i, size) == SubSeq(urls, i + 1, Min(i + size - 1, Len(urls)))

\* university_urls[i : i + batch_size]
batch_slice(urls, i, size) == SubSeq(urls, i + 1, Min(i + size, Len(urls)))

\* (i // batch_size) + 1
batch_number(i, size) == (i \div size) + 1

\* the step of range(0, total_urls, batch_size)
batch_step(i, size) == i + size

batch_urls == batch_slice(university_urls, rb_i, batch_size)
batch_num == batch_number(rb_i, batch_size)

\* the accumulated list replaced by the batch's list: a faulty accumulation
extend_results_Overwrite(all, batch) == batch

\* what run_batch does with the list run returned, line 133
extend_results(all, batch) == all \o batch

\* the test of line 136 inverted: a faulty guard
wants_checkpoint_Inverted(batch) == batch = <<>>

\* whether run_batch writes a checkpoint for the list run returned, line 136
wants_checkpoint(batch) == batch # <<>>

\* the content handed to _save_batch_results, line 137
checkpoint_content(all, batch) == batch

\* the except branch of run_batch, lines 139-141: log and continue; left
\* are the files the failed statement has left behind
batch_failed(what, left) ==
    /\ events' = Append(events, [type |-> "end", num |-> batch_num,
                                 run_raised |-> TRUE, raised |-> TRUE,
                                 result |-> <<>>, error |-> what])
    /\ rb_i' = batch_step(rb_i, batch_size)
    /\ rb_pc' = "loop"
    /\ valid_urls' = <<>>
    /\ sc_j' = 0
    /\ results' = <<>>
    /\ files' = files \o left
    /\ UNCHANGED <<batch_results, all_results>>

\* run_batch lines 122-129 and run lines 62-75: next batch, validate its URLs
run_batch_Next ==
    /\ rb_pc = "loop"
    /\ rb_i < Len(university_urls)
    /\ valid_urls' = validate_urls(batch_urls)
    /\ events' = Append(events, [type |-> "batch", num |-> batch_num,
                                 urls |-> batch_urls])
    /\ sc_j' = 0
    /\ results' = <<>>
    /\ IF valid_urls' = <<>>
       THEN batch_results' = <<>> /\ rb_pc' = "collect"   \* run returns []
       ELSE batch_results' = batch_results /\ rb_pc' = "scrape_init"
    /\ UNCHANGED <<sessVars, mrVars, university_urls, batch_size, rb_i,
                   all_results, files, cbVars, extVars>>

\* scrape_university_details line 54: self._initialize_driver()
scrape_Init ==
    /\ rb_pc = "scrape_init"
    /\ \E o \in InitOutcomes, q \in QuitOutcomes :
         LET d == initialize_driver(driver, o, nextSid)
             raises == initialize_driver_raises(driver, o)
             \* finally (lines 74-76): the session assigned before the raise
             quits == raises /\ d # 0
         IN  /\ driver' = d
             /\ nextSid' = IF initialize_driver_creates(driver, o)
                           THEN nextSid + 1 ELSE nextSid
             /\ quitted' = IF quits THEN quit_effect(d, q) ELSE quitted
             /\ IF raises
                THEN batch_failed(IF quits /\ q # "ok" THEN "quit"
                                  ELSE "ScraperException", <<>>)
                ELSE /\ rb_pc' = "scrape_loop"
                     /\ UNCHANGED <<rb_i, valid_urls, sc_j, results, batch_results,
                                    all_results, files, events>>
    /\ UNCHANGED <<max_retries, mrVars, university_urls, batch_size, cbVars, extVars>>

\* scrape_university_details lines 56-72: one URL through _scrape_single_university
scrape_Url ==
    /\ rb_pc = "scrape_loop"
    /\ sc_j < Len(valid_urls)
    /\ \E out \in ScrapeOutcomes :
         /\ (out # "get_raises") => CanNavigate(driver)
         /\ events' = Append(events, [type |-> "nav", num |-> batch_num,
                                      idx |-> sc_j + 1, url |-> valid_urls[sc_j + 1],
                                      sid |-> driver, live |-> CanNavigate(driver),
                                      out |-> out])
         /\ results' = Append(results,
                              scrape_single_university(valid_urls[sc_j + 1], out))
    /\ sc_j' = sc_j + 1
    /\ UNCHANGED <<sessVars, mrVars, university_urls, batch_size, rb_pc, rb_i,
                   valid_urls, batch_results, all_results, files, cbVars, extVars>>

\* scrape_university_details lines 74-81: finally: self.driver.quit()
scrape_Finally ==
    /\ rb_pc = "scrape_loop"
    /\ sc_j = Len(valid_urls)
    /\ \E q \in QuitOutcomes :
         /\ quitted' = IF driver # 0 THEN quit_effect(driver, q) ELSE quitted
         /\ IF driver # 0 /\ q # "ok"
            THEN batch_failed("quit", <<>>)
            ELSE /\ rb_pc' = "process"
                 /\ UNCHANGED <<rb_i, valid_urls, sc_j, results, batch_results,
                                all_results, files, events>>
    /\ UNCHANGED <<driver, nextSid, max_retries, mrVars, university_urls,
                   batch_size, cbVars, extVars>>

\* run lines 80-105: filter, clean, _save_results, return
run_Process ==
    /\ rb_pc = "process"
    /\ LET processed == process_scraped(results) IN
       \E saved \in SaveOutcomes :
         /\ (processed = <<>>) => saved = "ok"       \* nothing is written
         /\ IF processed # <<>> /\ saved # "ok"
            THEN batch_failed("save_results",
                              saved_file("results", batch_num, processed, saved))
            ELSE /\ batch_results' = processed
                 /\ files' = IF processed # <<>>
                             THEN files \o saved_file("results", batch_num,
                                                      processed, saved)
                             ELSE files
                 /\ rb_pc' = "collect"
                 /\ UNCHANGED <<rb_i, valid_urls, sc_j, results, all_results, events>>
    /\ UNCHANGED <<sessVars, mrVars, university_urls, batch_size, cbVars, extVars>>

\* run_batch lines 132-141: extend all_results, checkpoint, next batch
run_batch_Collect ==
    /\ rb_pc = "collect"
    /\ all_results' = extend_results(all_results, batch_results)
    /\ \E saved \in SaveOutcomes :
         /\ ~wants_checkpoint(batch_results) => saved = "ok"    \* nothing is written
         /\ LET content == checkpoint_content(all_results', batch_results)
                written == wants_checkpoint(batch_results) /\ saved = "ok"
                ckpt == IF written
                        THEN <<[type |-> "ckpt", num |-> batch_num, data |-> content]>>
                        ELSE <<>>
            IN /\ files' = IF wants_checkpoint(batch_results)
                           THEN files \o saved_file("batch", batch_num, content, saved)
                           ELSE files
               /\ events' = events \o ckpt \o
                            <<[type |-> "end", num |-> batch_num, run_raised |-> FALSE,
                               raised |-> saved # "ok", result |-> batch_results,
                               error |-> IF saved = "ok" THEN "" ELSE "save_batch"]>>
    /\ rb_i' = batch_step(rb_i, batch_size)
    /\ rb_pc' = "loop"
    /\ valid_urls' = <<>>
    /\ sc_j' = 0
    /\ results' = <<>>
    /\ UNCHANGED <<sessVars, mrVars, university_urls, batch_size, batch_results, cbVars, extVars>>

\* run_batch lines 143-146: the loop is over
run_batch_Return ==
    /\ rb_pc = "loop"
    /\ ~(rb_i < Len(university_urls))
    /\ rb_pc' = "done"
    /\ UNCHANGED <<sessVars, mrVars, university_urls, batch_size, rb_i, valid_urls,
                   sc_j, results, batch_results, all_results, files, events, cbVars, extVars>>

(***************************************************************************)
(* combine_datasets                                                        *)
(* Dicts live in a heap (object id -> dict) so that copying and mutation   *)
(* are visible.  None is the string "None"; nested values are opaque.      *)
(***************************************************************************)
Falsy == {"None", ""}
DetailKeys == {"detailed_ranking_data", "key_stats", "subjects", "additional_info"}

\* dict.get(key, default)
dict_get(d, key, default) == IF key \in DOMAIN d THEN d[key] ELSE default

\* the outcome of d.update(upd) with only the new entries kept: a faulty update
dict_update_Replace(d, upd) == upd

\* the dict after d.update(upd)
dict_update(d, upd) ==
    [k \in DOMAIN d \cup DOMAIN upd |-> IF k \in DOMAIN upd THEN upd[k] ELSE d[k]]

\* the four fields with key_stats taken from ranking_data: a faulty selection
detail_fields_Swapped(detail_data) ==
    [detailed_ranking_data |-> dict_get(detail_data, "ranking_data", "{}"),
     key_stats |-> dict_get(detail_data, "ranking_data", "{}"),
     subjects |-> dict_get(detail_data, "subjects", "[]"),
     additional_info |-> dict_get(detail_data, "additional_info", "{}")]

\* the dict literal of lines 467-474
detail_fields(detail_data) ==
    [detailed_ranking_data |-> dict_get(detail_data, "ranking_data", "{}"),
     key_stats |-> dict_get(detail_data, "key_stats", "{}"),
     subjects |-> dict_get(detail_data, "subjects", "[]"),
     additional_info |-> dict_get(detail_data, "additional_info", "{}")]

\* no copy is made: the composite is the rank entry itself
copy_target_Alias(ranking, fresh) == ranking

\* ranking.copy(): the object that becomes combined_uni
copy_target(ranking, fresh) == fresh

RECURSIVE build_lookup(_, _, _)
\* lines 449-453: the lookup after the first loop (a later record overwrites)
build_lookup(h, unis, acc) ==
    IF unis = <<>> THEN acc
    ELSE LET url == dict_get(h[Head(unis)], "url", "") IN
         build_lookup(h, Tail(unis),
             IF url \notin Falsy
             THEN [u \in DOMAIN acc \cup {url} |->
                      IF u = url THEN Head(unis) ELSE acc[u]]
             ELSE acc)

\* line 463: if uni_url and uni_url in uni_details
has_details(ranking, lookup) ==
    /\ dict_get(ranking, "university_url", "None") \notin Falsy
    /\ dict_get(ranking, "university_url", "None") \in DOMAIN lookup

\* lines 448-453
combine_BuildLookup ==
    /\ cb_pc = "start"
    /\ uni_details' = build_lookup(heap, universities_data, [u \in {} |-> 0])
    /\ combined' = <<>>
    /\ cb_k' = 0
    /\ cb_pc' = "loop"
    /\ UNCHANGED <<sessVars, mrVars, rbVars, heap, rankings_data,
                   universities_data, heap0, extVars>>

\* lines 457-476: one rank entry
combine_Step ==
    /\ cb_pc = "loop"
    /\ cb_k < Len(rankings_data)
    /\ LET rid == rankings_data[cb_k + 1]
           fresh == Cardinality(DOMAIN heap) + 1
           target == copy_target(rid, fresh)
           ranking == heap[rid]
           value == IF has_details(ranking, uni_details)
                    THEN dict_update(ranking,
                            detail_fields(heap[uni_details[ranking.university_url]]))
                    ELSE ranking
       IN /\ heap' = [o \in DOMAIN heap \cup {target} |->
                        IF o = target THEN value ELSE heap[o]]
          /\ combined' = Append(combined, target)
    /\ cb_k' = cb_k + 1
    /\ UNCHANGED <<sessVars, mrVars, rbVars, rankings_data, universities_data,
                   uni_details, cb_pc, heap0, extVars>>

\* line 478
combine_Return ==
    /\ cb_pc = "loop"
    /\ cb_k = Len(rankings_data)
    /\ cb_pc' = "done"
    /\ UNCHANGED <<sessVars, mrVars, rbVars, heap, rankings_data, universities_data,
                   uni_details, combined, cb_k, heap0, extVars>>

(***************************************************************************)
(* Inputs of combine_datasets                                              *)
(***************************************************************************)
RankEntry(rank, name, url) ==
    [rank |-> rank, name |-> name, country |-> "United Kingdom",
     university_url |-> url, overall_score |-> "98.5", teaching_score |-> "96.6",
     research_score |-> "None", citations_score |-> "99.0",
     industry_income_score |-> "None", international_outlook_score |-> "97.5"]

RankPool ==
    {RankEntry("1", "Oxford", "https://the/oxford"),
     RankEntry("2", "MIT", "https://the/mit"),
     RankEntry("None", "Nowhere", "None"),
     RankEntry("401", "Elsewhere", "https://the/elsewhere")}

DetailPool ==
    {\* as built by UniversityDetailScraper._scrape_single_university
     [url |-> "https://the/oxford", name |-> "Oxford", ranking_data |-> "rd-oxford",
      key_stats |-> "ks-oxford", subjects |-> "sub-oxford", scrape_timestamp |-> "t"],
     \* as built by UniversityDetailParser.parse
     [url |-> "https://the/mit", name |-> "MIT", ranking_data |-> "rd-mit",
      key_stats |-> "ks-mit", subjects |-> "sub-mit", additional_info |-> "info-mit"],
     \* a second record for the same URL
     [url |-> "https://the/oxford", name |-> "Oxford", ranking_data |-> "rd-oxford-2",
      key_stats |-> "ks-oxford-2", subjects |-> "sub-oxford-2",
      additional_info |-> "info-oxford-2"],
     \* error form
     [url |-> "https://the/mit", error |-> "boom"],
     \* a page no rank entry links to
     [url |-> "https://the/unranked", name |-> "Unranked", ranking_data |-> "rd-u",
      key_stats |-> "ks-u", subjects |-> "sub-u", additional_info |-> "info-u"],
     \* no usable key
     [url |-> "", name |-> "Blank", ranking_data |-> "rd-b", key_stats |-> "ks-b",
      subjects |-> "sub-b", additional_info |-> "info-b"]}

SeqsUpTo(S, n) == UNION {[1..m -> S] : m \in 0..n}

(***************************************************************************)
(* Initial states and specifications                                       *)
(***************************************************************************)
SessIdle ==
    /\ driver = 0
    /\ nextSid = 1
    /\ quitted = {}
    /\ max_retries = DefaultMaxRetries

MrIdle ==
    /\ mr_pc = "off"
    /\ retry_count = 0
    /\ mr_exc = ""
    /\ navLog = <<>>
    /\ sleeps = <<>>

RbIdle ==
    /\ university_urls = <<>>
    /\ batch_size = 1
    /\ rb_pc = "off"
    /\ rb_i = 0
    /\ valid_urls = <<>>
    /\ sc_j = 0
    /\ results = <<>>
    /\ batch_results = <<>>
    /\ all_results = <<>>
    /\ files = <<>>
    /\ events = <<>>

CbIdle ==
    /\ heap = <<>>
    /\ rankings_data = <<>>
    /\ universities_data = <<>>
    /\ uni_details = <<>>
    /\ combined = <<>>
    /\ cb_k = 0
    /\ cb_pc = "off"
    /\ heap0 = <<>>

\* the variables of the components a specification does not exercise
VdIdle ==
    /\ v_urls = <<>>
    /\ v_once = <<>>
    /\ v_twice = <<>>
    /\ v_pc = "off"

ExIdle ==
    /\ ex_fn = "off"
    /\ ex_text = <<>>
    /\ ex_out = [kind |-> "None"]
    /\ ex_warnings = 0
    /\ ex_pc = "off"

RpIdle ==
    /\ rp_content = <<>>
    /\ rp_table = 0
    /\ rp_i = 0
    /\ universities = <<>>
    /\ rp_log = <<>>
    /\ rp_pc = "off"

DpIdle ==
    /\ dp_url = <<>>
    /\ dp_page = <<>>
    /\ dp_parsed = <<>>
    /\ dp_scraped = <<>>
    /\ dp_cleaned = <<>>
    /\ dp_pc = "off"

PlIdle ==
    /\ pl_scraper_type = "basic"
    /\ pl_limit = 0
    /\ pl_save_html = FALSE
    /\ pl_written = <<>>
    /\ pl_result = <<>>
    /\ pl_pc = "off"

ClIdle ==
    /\ cl_items = <<>>
    /\ cl_parser = <<>>
    /\ cl_scraper = <<>>
    /\ cl_pc = "off"

WtIdle ==
    /\ wt_kind = "off"
    /\ wt_pc = "off"
    /\ wt_wait = ""
    /\ wt_trace = <<>>
    /\ wt_out = [kind |-> "None"]
    /\ page_height = 0
    /\ last_height = 0
    /\ scrolls = 0

LateIdle == PlIdle /\ ClIdle /\ WtIdle

ExtIdle == VdIdle /\ ExIdle /\ RpIdle /\ DpIdle /\ LateIdle

\* a scraper about to run _make_request, with or without a session from earlier use
InitFetch ==
    /\ ExtIdle
    /\ driver \in {0, 1}
    /\ nextSid = driver + 1
    /\ quitted = {}
    /\ max_retries \in 1..MaxRetriesBound
    /\ mr_pc = "idle"
    /\ retry_count = 0
    /\ mr_exc = ""
    /\ navLog = <<>>
    /\ sleeps = <<>>
    /\ RbIdle
    /\ CbIdle

NextFetch ==
    \/ make_request_Enter
    \/ make_request_Navigate
    \/ make_request_Recover
    \/ make_request_Exhausted

SpecFetch == InitFetch /\ [][NextFetch]_vars

\* a freshly constructed pipeline about to run run_batch
InitBatch ==
    /\ ExtIdle
    /\ SessIdle
    /\ MrIdle
    /\ university_urls \in SeqsUpTo(UrlPool, MaxUrls)
    /\ batch_size \in 1..MaxBatchSize
    /\ rb_pc = "loop"
    /\ rb_i = 0
    /\ valid_urls = <<>>
    /\ sc_j = 0
    /\ results = <<>>
    /\ batch_results = <<>>
    /\ all_results = <<>>
    /\ files = <<>>
    /\ events = <<>>
    /\ CbIdle

NextBatch ==
    \/ run_batch_Next
    \/ scrape_Init
    \/ scrape_Url
    \/ scrape_Finally
    \/ run_Process
    \/ run_batch_Collect
    \/ run_batch_Return

SpecBatch == InitBatch /\ [][NextBatch]_vars

\* combine_datasets about to run on freshly loaded lists
InitCombine ==
    /\ ExtIdle
    /\ SessIdle
    /\ MrIdle
    /\ RbIdle
    /\ \E ranks \in SeqsUpTo(RankPool, MaxRanks), dets \in SeqsUpTo(DetailPool, MaxDetails) :
         /\ heap = ranks \o dets
         /\ rankings_data = [i \in 1..Len(ranks) |-> i]
         /\ universities_data = [i \in 1..Len(dets) |-> Len(ranks) + i]
    /\ uni_details = <<>>
    /\ combined = <<>>
    /\ cb_k = 0
    /\ cb_pc = "start"
    /\ heap0 = heap

NextCombine ==
    \/ combine_BuildLookup
    \/ combine_Step
    \/ combine_Return

SpecCombine == InitCombine /\ [][NextCombine]_vars

(***************************************************************************)
(* Properties of _make_request (SpecFetch)                                 *)
(***************************************************************************)
AllAttemptsFailed == \A i \in 1..Len(navLog) : ~navLog[i].ok

\* loop iterations whose driver.get went to a browser session
SessionNavigations == Cardinality({i \in 1..Len(navLog) : navLog[i].sid # 0})

\* C1: when every navigation attempt of a call that entered its retry loop fails,
\* the call never returns markup and raises ScraperException after exactly
\* max_retries navigation attempts against a browser session.
C1_ExactlyMaxRetriesSessionNavigations ==
    /\ (mr_pc = "returned") => ~AllAttemptsFailed
    /\ (mr_pc = "raised" /\ navLog # <<>> /\ AllAttemptsFailed) =>
          /\ mr_exc = "ScraperException"
          /\ SessionNavigations = max_retries

\* C2: every attempt that follows a failed attempt runs on a session created after
\* that failure; the failed session has been quit; the attempt never has no session.
C2_FreshSessionAfterFailure ==
    \A i \in 1..(Len(navLog) - 1) :
        ~navLog[i].ok =>
            /\ navLog[i + 1].sid # 0
            /\ navLog[i + 1].sid >= navLog[i].nextAt
            /\ (navLog[i].sid # 0 => navLog[i].sid \in quitted)

(***************************************************************************)
(* Properties of run_batch (SpecBatch)                                     *)
(***************************************************************************)
IsEnd(e) == e.type = "end"
IsBatch(e) == e.type = "batch"
EndEvents == SelectSeq(events, IsEnd)
BatchEvents == SelectSeq(events, IsBatch)

NavIdx(num) == {p \in 1..Len(events) : events[p].type = "nav" /\ events[p].num = num}

\* driver.get calls made for the idx-th URL of batch num
NavAttempts(num, idx) == Cardinality({p \in NavIdx(num) : events[p].idx = idx})

\* C3: a URL is given an error-marked record for a failed navigation only after
\* max_retries navigation attempts for it have failed.
C3_ErrorRecordOnlyAfterMaxRetries ==
    \A j \in 1..Len(results) :
        ("error" \in DOMAIN results[j] /\ results[j].error = "get_raises") =>
            NavAttempts(batch_num, j) >= max_retries

\* A batch raised when an exception reached the except clause of run_batch
\* (line 139): e.raised.  The exception came out of run(batch_urls) when
\* e.run_raised, and otherwise out of _save_batch_results, after run had
\* returned the list e.result.
RunResultOf(e) == IF e.run_raised THEN <<>> ELSE e.result
ResultIfNotRaised(e) == IF e.raised THEN <<>> ELSE e.result

\* C4 as claimed: between batches and at the end, all_results is the
\* concatenation, in batch order, of the result lists of the batches that
\* did not raise; a batch that raised is skipped and removes nothing.
C4_ConcatenationOfBatchesThatDidNotRaise ==
    (rb_pc \in {"loop", "done"}) =>
        /\ all_results =
               Flatten([k \in 1..Len(EndEvents) |-> ResultIfNotRaised(EndEvents[k])])
        /\ \A k \in 1..Len(EndEvents) : EndEvents[k].num = k

\* C4 amended: between batches and at the end, all_results is the
\* concatenation, in batch order, of the lists run returned, the list of a
\* batch whose checkpoint write raised afterwards included; a batch whose
\* run raised adds nothing, is skipped and removes nothing.
C4_ConcatenationOfReturnedBatches ==
    (rb_pc \in {"loop", "done"}) =>
        /\ all_results = Flatten([k \in 1..Len(EndEvents) |-> RunResultOf(EndEvents[k])])
        /\ \A k \in 1..Len(EndEvents) : EndEvents[k].num = k

\* three batches: the checkpoint write of the first raised after run had
\* returned its records, the run of the second raised, the third did not
\* raise; the lists of the first and of the third are returned
C4_Witness ==
    /\ rb_pc = "done"
    /\ Len(EndEvents) = 3
    /\ ~EndEvents[1].run_raised /\ EndEvents[1].raised /\ EndEvents[1].result # <<>>
    /\ EndEvents[2].run_raised
    /\ ~EndEvents[3].raised
    /\ all_results = EndEvents[1].result \o EndEvents[3].result

BatchUrlsOf(num) == BatchEvents[num].urls

HasRecordFor(recs, u) == \E r \in 1..Len(recs) : recs[r].url = u

\* C5 as claimed: the list returned for a completed batch holds a record for every
\* validated URL of the batch, error-marked ones included.
C5_RecordForEveryValidatedUrl ==
    \A k \in 1..Len(EndEvents) :
        ~EndEvents[k].run_raised =>
            LET valid == validate_urls(BatchUrlsOf(EndEvents[k].num)) IN
            \A v \in 1..Len(valid) : HasRecordFor(EndEvents[k].result, valid[v])

\* the URLs of batch num whose page was fetched and extracted, in order
ScrapedUrls(num) ==
    LET IsOk(e) == e.type = "nav" /\ e.num = num /\ e.out = "ok"
        oks == SelectSeq(events, IsOk)
    IN [i \in 1..Len(oks) |-> oks[i].url]

\* C5 amended: the list returned for a completed batch holds, in order, exactly one
\* data record for every validated URL whose fetch and extraction succeeded, and
\* no error-marked record.
C5_DataRecordsOnly ==
    \A k \in 1..Len(EndEvents) :
        ~EndEvents[k].run_raised =>
            LET res == EndEvents[k].result IN
            /\ \A r \in 1..Len(res) : "error" \notin DOMAIN res[r]
            /\ [r \in 1..Len(res) |-> res[r].url] = ScrapedUrls(EndEvents[k].num)

\* a completed batch in which one URL was scraped and another failed
C5_Witness ==
    \E k \in 1..Len(EndEvents) :
        /\ ~EndEvents[k].run_raised
        /\ EndEvents[k].result # <<>>
        /\ \E p \in NavIdx(EndEvents[k].num) : events[p].out # "ok"

\* the checkpoint files of batch num in the output directory
CheckpointFiles(num) ==
    {f \in 1..Len(files) : files[f].kind = "batch" /\ files[f].num = num}

\* a checkpoint of batch num holding exactly data is in the output directory,
\* and it was written before any URL of a later batch was fetched
CheckpointedBeforeNext(num, data) ==
    /\ \E f \in CheckpointFiles(num) : files[f].complete /\ files[f].data = data
    /\ \E q \in 1..Len(events) :
          /\ events[q].type = "ckpt" /\ events[q].num = num /\ events[q].data = data
          /\ \A p \in 1..Len(events) :
                (events[p].type = "nav" /\ events[p].num > num) => q < p

\* batch num has no checkpoint: nothing was written for it
NoCheckpoint(num) ==
    /\ CheckpointFiles(num) = {}
    /\ \A q \in 1..Len(events) : ~(events[q].type = "ckpt" /\ events[q].num = num)

\* batches are handled one at a time, in order
OneBatchAtATime ==
    \A p \in 1..(Len(events) - 1) : events[p].num <= events[p + 1].num

\* C6 as claimed: every batch that completes without raising, the empty ones
\* included, has a checkpoint of exactly its results before the next batch is fetched.
C6_CheckpointForEveryCompletedBatch ==
    /\ OneBatchAtATime
    /\ \A k \in 1..Len(EndEvents) :
          ~EndEvents[k].raised =>
              CheckpointedBeforeNext(EndEvents[k].num, EndEvents[k].result)

\* C6 amended: every batch that completes without raising and has a non-empty
\* result list has a checkpoint of exactly its results before the next batch is
\* fetched; a batch that completes without raising and has an empty result
\* list has no checkpoint; batches are handled one at a time, in order.
C6_CheckpointForNonEmptyBatch ==
    /\ OneBatchAtATime
    /\ \A k \in 1..Len(EndEvents) :
          /\ (~EndEvents[k].raised /\ EndEvents[k].result # <<>>) =>
                 CheckpointedBeforeNext(EndEvents[k].num, EndEvents[k].result)
          /\ (~EndEvents[k].raised /\ EndEvents[k].result = <<>>) =>
                 NoCheckpoint(EndEvents[k].num)

\* a checkpointed batch followed by the fetch of a URL of a later batch, and
\* a batch that completed with an empty result list and has no checkpoint
C6_Witness ==
    /\ \E k \in 1..Len(EndEvents) :
          /\ ~EndEvents[k].raised /\ EndEvents[k].result # <<>>
          /\ CheckpointedBeforeNext(EndEvents[k].num, EndEvents[k].result)
          /\ \E p \in 1..Len(events) :
                events[p].type = "nav" /\ events[p].num > EndEvents[k].num
    /\ \E k \in 1..Len(EndEvents) :
          /\ ~EndEvents[k].raised /\ EndEvents[k].result = <<>>
          /\ NoCheckpoint(EndEvents[k].num)

CeilDiv(n, d) == IF n % d = 0 THEN n \div d ELSE (n \div d) + 1

\* C7: run_batch handles exactly ceil(N / batch_size) batches, which are contiguous
\* slices of the input in input order, each of batch_size URLs except possibly the
\* last, and together they are the input list.
C7_BatchesPartitionInput ==
    (rb_pc = "done") =>
        LET n == Len(university_urls)
            B == BatchEvents
        IN /\ Len(B) = CeilDiv(n, batch_size)
           /\ \A k \in 1..Len(B) :
                 /\ B[k].num = k
                 /\ B[k].urls = SubSeq(university_urls, (k - 1) * batch_size + 1,
                                       Min(k * batch_size, n))
                 /\ Len(B[k].urls) >= 1
                 /\ Len(B[k].urls) <= batch_size
                 /\ (k < Len(B)) => Len(B[k].urls) = batch_size
           /\ Flatten([k \in 1..Len(B) |-> B[k].urls]) = university_urls

\* a run with a full batch followed by a shorter last batch
C7_Witness ==
    /\ rb_pc = "done"
    /\ Len(BatchEvents) >= 2
    /\ Len(BatchEvents[Len(BatchEvents)].urls) < batch_size

(***************************************************************************)
(* Properties of combine_datasets (SpecCombine)                            *)
(***************************************************************************)
RankIn(i) == heap0[rankings_data[i]]
DetailIn(j) == heap0[universities_data[j]]
Composite(i) == heap[combined[i]]

\* the detail records whose url is the URL of rank entry i
MatchesOf(i) ==
    {j \in 1..Len(universities_data) :
        "url" \in DOMAIN DetailIn(j) /\ DetailIn(j).url = RankIn(i).university_url}

Matched(i) == RankIn(i).university_url \notin Falsy /\ MatchesOf(i) # {}

\* C8: the result has one composite per rank entry, in the order of the rank
\* entries, and the i-th composite carries every field of the i-th rank entry
\* unchanged, matched or not.
C8_LengthOrderAndRankFieldsKept ==
    (cb_pc \in {"loop", "done"}) =>
        /\ Len(combined) = cb_k
        /\ (cb_pc = "done") => Len(combined) = Len(rankings_data)
        /\ \A i \in 1..Len(combined) :
              \A k \in DOMAIN RankIn(i) :
                  k \in DOMAIN Composite(i) /\ Composite(i)[k] = RankIn(i)[k]

\* a finished join of two rank entries, one enriched and one not
C8_Witness ==
    /\ cb_pc = "done"
    /\ Len(combined) = 2
    /\ Matched(1)
    /\ ~Matched(2)

\* the value composite c holds under key ck is detail record d's value under dk
CopiedFrom(c, ck, d, dk, default) ==
    c[ck] = (IF dk \in DOMAIN d THEN d[dk] ELSE default)

\* C9: a composite carries the four detail fields exactly when its rank entry's URL
\* is non-empty and is the url of a detail record, and then the values are those of
\* such a record (the empty default for a field the record lacks); otherwise the
\* composite is the rank entry alone, so unmatched detail records add nothing.
C9_DetailFieldsIffMatched ==
    \A i \in 1..Len(combined) :
        LET c == Composite(i) IN
        /\ Matched(i) <=> (DetailKeys \subseteq DOMAIN c)
        /\ ~Matched(i) => (DetailKeys \cap DOMAIN c = {} /\ c = RankIn(i))
        /\ Matched(i) =>
              /\ DOMAIN c = DOMAIN RankIn(i) \cup DetailKeys
              /\ \E j \in MatchesOf(i) :
                    /\ CopiedFrom(c, "detailed_ranking_data", DetailIn(j), "ranking_data", "{}")
                    /\ CopiedFrom(c, "key_stats", DetailIn(j), "key_stats", "{}")
                    /\ CopiedFrom(c, "subjects", DetailIn(j), "subjects", "[]")
                    /\ CopiedFrom(c, "additional_info", DetailIn(j), "additional_info", "{}")

\* a finished join with an enriched entry, an entry without URL, and a detail
\* record no rank entry links to
C9_Witness ==
    /\ cb_pc = "done"
    /\ \E i \in 1..Len(combined) : Matched(i)
    /\ \E i \in 1..Len(combined) : RankIn(i).university_url = "None"
    /\ \E j \in 1..Len(universities_data) :
          \A i \in 1..Len(rankings_data) : j \notin MatchesOf(i)

\* C10: the input lists and every dict in them are as they were when the call
\* started, and every composite is a new object, not one of the inputs.
C10_InputsUntouchedCompositesNew ==
    (cb_pc \in {"loop", "done"}) =>
        /\ \A o \in DOMAIN heap0 : o \in DOMAIN heap /\ heap[o] = heap0[o]
        /\ rankings_data = [i \in 1..Len(rankings_data) |-> i]
        /\ universities_data =
              [j \in 1..Len(universities_data) |-> Len(rankings_data) + j]
        /\ \A i \in 1..Len(combined) : combined[i] \notin DOMAIN heap0

\* a finished join in which an entry was enriched with detail fields
C10_Witness ==
    /\ cb_pc = "done"
    /\ \E i \in 1..Len(combined) :
          Matched(i) /\ Composite(i) # RankIn(i)

(***************************************************************************)
(* _validate_urls applied to a list and again to its own result            *)
(***************************************************************************)
MaxValidate == 2      \* length of the list given to _validate_urls

\* a valid URL followed by two whitespace characters
UrlTrailing == UrlOxford \o <<" ", " ">>
\* another host; the domain and the path occur in its query string
UrlInQuery == <<"https://", "evil.example", "/?q=", "timeshighereducation.com",
                "/world-university-rankings/", "x">>
\* not a URL: text that starts with "http" and goes on with both needles
UrlJunkPrefix == <<"httpx", "timeshighereducation.com",
                   "/world-university-rankings/", "x">>
\* a relative URL of the site
UrlRelative == <<"/world-university-rankings/", "oxford">>
ValidatePool == UrlPool \cup {NonString, UrlTrailing, UrlInQuery, UrlJunkPrefix,
                              UrlRelative}

\* valid_urls = self._validate_urls(urls)
validate_Call ==
    /\ v_pc = "start"
    /\ v_once' = validate_urls(v_urls)
    /\ v_pc' = "once"
    /\ UNCHANGED <<lateVars, sessVars, mrVars, rbVars, cbVars, v_urls, v_twice, exVars, rpVars, dpVars>>

\* self._validate_urls(valid_urls)
validate_Again ==
    /\ v_pc = "once"
    /\ v_twice' = validate_urls(v_once)
    /\ v_pc' = "twice"
    /\ UNCHANGED <<lateVars, sessVars, mrVars, rbVars, cbVars, v_urls, v_once, exVars, rpVars, dpVars>>

InitValidate ==
    /\ SessIdle
    /\ MrIdle
    /\ RbIdle
    /\ CbIdle
    /\ LateIdle
    /\ ExIdle
    /\ DpIdle
    /\ RpIdle
    /\ v_urls \in SeqsUpTo(ValidatePool, MaxValidate)
    /\ v_once = <<>>
    /\ v_twice = <<>>
    /\ v_pc = "start"

NextValidate ==
    \/ validate_Call
    \/ validate_Again

SpecValidate == InitValidate /\ [][NextValidate]_vars

\* C11: validating an already validated list changes nothing: the second
\* result equals the first element for element, whatever the input held
\* (padded entries, non-string entries, duplicates).
C11_ValidateIdempotent ==
    v_pc = "twice" => v_twice = v_once

\* a list with a padded entry and a dropped entry went through both calls
C11_Witness ==
    /\ v_pc = "twice"
    /\ v_once # <<>>
    /\ \E i \in 1..Len(v_urls) : v_urls[i] # NonString /\ strip(v_urls[i]) # v_urls[i]
    /\ \E i \in 1..Len(v_urls) : ~url_is_valid(v_urls[i])

\* an absolute http(s) URL on the site's host with a detail-page path
IsDetailUrl(u) ==
    \E scheme \in {"http://", "https://"} :
        \E host \in {"www.timeshighereducation.com", "timeshighereducation.com"} :
            startswith(joined(u), scheme \o host \o "/world-university-rankings/")

\* C12: every URL returned by _validate_urls is an absolute http(s) URL whose
\* host is timeshighereducation.com and whose path starts with
\* /world-university-rankings/.
C12_ReturnedUrlsAreDetailUrls ==
    v_pc \in {"once", "twice"} => \A i \in 1..Len(v_once) : IsDetailUrl(v_once[i])

(***************************************************************************)
(* Cell texts of the rankings table and the numbers read from them.        *)
(* Python values: None, an int, a float (the fraction num / den in lowest  *)
(* terms; inf, -inf and nan have den = 0), a raised ValueError.            *)
(***************************************************************************)
MaxTextLen == 3       \* length of the generated rank / score texts

None == [kind |-> "None"]
IntVal(n) == [kind |-> "int", val |-> n]
FloatVal(n, d) == [kind |-> "float", num |-> n, den |-> d]
ValueError == [kind |-> "ValueError"]

RECURSIVE Pow10(_)
Pow10(n) == IF n = 0 THEN 1 ELSE 10 * Pow10(n - 1)

RECURSIVE Gcd(_, _)
Gcd(a, b) == IF b = 0 THEN a ELSE Gcd(b, a % b)

\* the float n / d, d > 0
Ratio(n, d) ==
    LET g == Gcd(IF n < 0 THEN 0 - n ELSE n, d)
    IN  FloatVal(n \div g, d \div g)

\* the whitespace int() and float() skip at both ends
number_strip(t) ==
    LET kept == {i \in 1..Len(t) : ~number_isspace(t[i])}
    IN  IF kept = {} THEN <<>> ELSE SubSeq(t, SetMin(kept), SetMax(kept))

\* a run of decimal digits
all_digits(t) == t # <<>> /\ \A i \in 1..Len(t) : isdecimal(t[i])

\* the digits of a numeric literal: decimal digits, with single underscores
\* between two of them
digit_part(b) ==
    /\ b # <<>>
    /\ \A i \in 1..Len(b) :
          \/ isdecimal(b[i])
          \/ /\ b[i] = "_"
             /\ 1 < i
             /\ i < Len(b)
             /\ isdecimal(b[i - 1])
             /\ isdecimal(b[i + 1])

\* value of the digits of a numeric literal
RECURSIVE nat_of(_)
nat_of(ds) ==
    IF ds = <<>> THEN 0
    ELSE IF ds[Len(ds)] = "_" THEN nat_of(SubSeq(ds, 1, Len(ds) - 1))
    ELSE 10 * nat_of(SubSeq(ds, 1, Len(ds) - 1)) + decimal(ds[Len(ds)])

signed(s) == s # <<>> /\ Head(s) \in {"+", "-"}
unsigned(s) == IF signed(s) THEN Tail(s) ELSE s

\* int(text)
py_int(t) ==
    LET literal(s, digits) ==
            IF ~digit_part(digits) THEN ValueError
            ELSE IF s # <<>> /\ Head(s) = "-" THEN IntVal(0 - nat_of(digits))
            ELSE IntVal(nat_of(digits))
        stripped(s) == literal(s, unsigned(s))
    IN  stripped(number_strip(t))

\* the mantissa `ip . fp` of a float literal times ten to the power e
decimal_value(mant, e) ==
    LET dots == {i \in 1..Len(mant) : mant[i] = "."}
        dot == IF dots = {} THEN Len(mant) + 1 ELSE SetMin(dots)
        ip == SubSeq(mant, 1, dot - 1)
        fp == SubSeq(mant, dot + 1, Len(mant))
        places == Len(SelectSeq(fp, LAMBDA c : c # "_"))
    IN  IF \/ Cardinality(dots) > 1
           \/ ip = <<>> /\ fp = <<>>
           \/ \E part \in {ip, fp} : part # <<>> /\ ~digit_part(part)
        THEN ValueError
        ELSE Ratio(nat_of(ip \o fp) * Pow10(IF e >= 0 THEN e ELSE 0),
                   Pow10(IF e >= 0 THEN places ELSE places - e))

\* float(text) for a text without a sign
unsigned_float(body) ==
    LET word == joined([i \in 1..Len(body) |-> ascii_lower(body[i])])
        es == {i \in 1..Len(body) : body[i] \in {"e", "E"}}
        at == IF es = {} THEN Len(body) + 1 ELSE SetMin(es)
        ex == SubSeq(body, at + 1, Len(body))
        exponent(digits) ==
            IF es = {} THEN 0
            ELSE IF Head(ex) = "-" THEN 0 - nat_of(digits)
            ELSE nat_of(digits)
        scaled(digits) ==
            IF Cardinality(es) > 1 \/ (es # {} /\ ~digit_part(digits)) THEN ValueError
            ELSE decimal_value(SubSeq(body, 1, at - 1), exponent(digits))
    IN  IF word \in {"inf", "infinity"} THEN FloatVal(1, 0)
        ELSE IF word = "nan" THEN FloatVal(0, 0)
        ELSE scaled(unsigned(ex))

\* float(text)
py_float(t) ==
    LET with_sign(s, v) ==
            IF v # ValueError /\ s # <<>> /\ Head(s) = "-"
            THEN FloatVal(0 - v.num, v.den)
            ELSE v
        stripped(s) == with_sign(s, unsigned_float(unsigned(s)))
    IN  stripped(number_strip(t))

\* "-" in rank_text
has_char(t, c) == \E i \in 1..Len(t) : t[i] = c

\* group 1 of re.search(r"=?(\d+)", text): the first maximal run of digits
first_digit_run(t) ==
    LET run(digits) ==
            IF digits = {} THEN <<>>
            ELSE SubSeq(t, SetMin(digits),
                        SetMin({i \in SetMin(digits)..Len(t) :
                                   i = Len(t) \/ ~isdecimal(t[i + 1])}))
    IN  run({i \in 1..Len(t) : isdecimal(t[i])})

\* RankingsParser._extract_rank: the value returned and the warnings logged
extract_rank(rank_text) ==
    LET lower_bound(match) ==                                  \* lines 253-258
            IF match # <<>> THEN [value |-> py_int(match), warnings |-> 0]
            ELSE [value |-> None, warnings |-> 0]
        converted(parsed) ==                                   \* lines 261-269
            IF parsed = ValueError THEN [value |-> None, warnings |-> 1]
            ELSE [value |-> parsed, warnings |-> 0]
    IN  IF rank_text = <<>> THEN [value |-> None, warnings |-> 0]
        ELSE IF has_char(rank_text, "-") THEN lower_bound(first_digit_run(rank_text))
        ELSE converted(py_int(IF Head(rank_text) = "=" THEN Tail(rank_text)
                              ELSE rank_text))

\* the list score_text is tested against ("" is covered by `not score_text`)
ScoreSentinels == {Chars("n/a"), <<"U+2013">>, <<>>, Chars("N/A"), <<"-">>}

clean_score_DigitsOnly(t) == SelectSeq(t, isdecimal)

\* re.sub(r"[^\d.]", "", score_text)
clean_score(t) == SelectSeq(t, LAMBDA c : isdecimal(c) \/ c = ".")

\* RankingsParser._extract_score: the value returned and the warnings logged
extract_score(score_text) ==
    LET converted(number) ==
            IF number = ValueError THEN [value |-> None, warnings |-> 1]
            ELSE [value |-> number, warnings |-> 0]
        cleaned(cleaned_score) ==
            IF cleaned_score = <<>> THEN [value |-> None, warnings |-> 0]
            ELSE converted(py_float(cleaned_score))
    IN  IF score_text \in ScoreSentinels THEN [value |-> None, warnings |-> 0]
        ELSE cleaned(clean_score(score_text))

\* texts given to the two methods
RankChars == {"4", "0", "1", "=", "-", "+", "x", "_", " ", "U+0665"}
ScoreChars == {"1", "5", "0", ".", "-", "e", "%", "U+0665"}
TextTiedRange == Chars("=401-500")
TextTied == Chars("=57")
TextEmDash == <<"U+2014">>
TextOpenEnded == Chars("1001+")
TextEnDashRange == <<"4", "0", "1", "U+2013", "5", "0", "0">>
Text873 == Chars("87.3")
TextTwoDots == Chars("1.2.3")
TextExponent == Chars("1e3")
RankTexts == SeqsUpTo(RankChars, MaxTextLen)
             \cup {TextTiedRange, TextTied, TextEmDash, TextOpenEnded, TextEnDashRange}
ScoreTexts == SeqsUpTo(ScoreChars, MaxTextLen)
              \cup (ScoreSentinels \cup {TextEmDash, Text873, TextTwoDots, TextExponent})

\* rank = self._extract_rank(rank_text)
extract_rank_Call ==
    /\ ex_pc = "call"
    /\ ex_fn = "rank"
    /\ LET returned(rank) == ex_out' = rank.value /\ ex_warnings' = rank.warnings
       IN  returned(extract_rank(ex_text))
    /\ ex_pc' = "returned"
    /\ UNCHANGED <<lateVars, sessVars, mrVars, rbVars, cbVars, vdVars, ex_fn, ex_text, rpVars, dpVars>>

\* score = self._extract_score(score_text)
extract_score_Call ==
    /\ ex_pc = "call"
    /\ ex_fn = "score"
    /\ LET returned(score) == ex_out' = score.value /\ ex_warnings' = score.warnings
       IN  returned(extract_score(ex_text))
    /\ ex_pc' = "returned"
    /\ UNCHANGED <<lateVars, sessVars, mrVars, rbVars, cbVars, vdVars, ex_fn, ex_text, rpVars, dpVars>>

InitExtract ==
    /\ SessIdle
    /\ MrIdle
    /\ RbIdle
    /\ CbIdle
    /\ LateIdle
    /\ VdIdle
    /\ DpIdle
    /\ RpIdle
    /\ ex_fn \in {"rank", "score"}
    /\ ex_text \in IF ex_fn = "rank" THEN RankTexts ELSE ScoreTexts
    /\ ex_out = None
    /\ ex_warnings = 0
    /\ ex_pc = "call"

NextExtract ==
    \/ extract_rank_Call
    \/ extract_score_Call

SpecExtract == InitExtract /\ [][NextExtract]_vars

\* the rank the normalization rule gives: "=" stripped, then a plain integer
\* is itself, a range a-b is a, anything else is None
IsRange(t, k) ==
    /\ t[k] = "-"
    /\ all_digits(SubSeq(t, 1, k - 1))
    /\ all_digits(SubSeq(t, k + 1, Len(t)))

ClaimedRank(t) ==
    LET body == IF t # <<>> /\ Head(t) = "=" THEN Tail(t) ELSE t
    IN  IF all_digits(body) THEN IntVal(nat_of(body))
        ELSE IF \E k \in 1..Len(body) : IsRange(body, k)
             THEN LET k == CHOOSE j \in 1..Len(body) : IsRange(body, j)
                  IN  IntVal(nat_of(SubSeq(body, 1, k - 1)))
        ELSE None

\* C14: for every rank text, _extract_rank returns the lower bound of a range
\* a-b, the integer of a plain or "="-prefixed integer, and None for any
\* other text.
C14_RankNormalization ==
    (ex_pc = "returned" /\ ex_fn = "rank") => ex_out = ClaimedRank(ex_text)

\* the three examples of the rule do come out as stated
C14_ExamplesHold ==
    (ex_pc = "returned" /\ ex_fn = "rank") =>
        /\ ex_text = TextTiedRange => ex_out = IntVal(401)
        /\ ex_text = TextTied => ex_out = IntVal(57)
        /\ ex_text \in {TextEmDash, TextOpenEnded, <<>>} => ex_out = None

\* the score the normalization rule gives: None for a sentinel; otherwise the
\* number written by the digits and dots of the text, None when they do not
\* write a number
ClaimedSentinels ==
    {Chars("n/a"), Chars("N/A"), <<"U+2013">>, <<"U+2014">>, <<"-">>, <<>>}

RECURSIVE Kept(_)
Kept(t) ==
    IF t = <<>> THEN <<>>
    ELSE IF isdecimal(Head(t)) \/ Head(t) = "." THEN <<Head(t)>> \o Kept(Tail(t))
    ELSE Kept(Tail(t))

\* c is ip "." fp with ip, fp digit strings, not both empty, the dot at k
IsDecimalAt(c, k) ==
    /\ c[k] = "."
    /\ Len(c) >= 2
    /\ \A i \in 1..Len(c) : i # k => isdecimal(c[i])

ClaimedScore(t) ==
    LET c == Kept(t)
    IN  IF t \in ClaimedSentinels THEN None
        ELSE IF all_digits(c) THEN FloatVal(nat_of(c), 1)
        ELSE IF \E k \in 1..Len(c) : IsDecimalAt(c, k)
             THEN LET k == CHOOSE j \in 1..Len(c) : IsDecimalAt(c, j)
                  IN  Ratio(nat_of(SubSeq(c, 1, k - 1) \o SubSeq(c, k + 1, Len(c))),
                            Pow10(Len(c) - k))
        ELSE None

\* C15: _extract_score returns None for every sentinel text; for any other
\* text it returns the number written by the digits and dots that remain, or
\* None when nothing remains or the remainder is not a number; it returns
\* (never raises), and "87.3" gives 87.3.
C15_ScoreNormalization ==
    (ex_pc = "returned" /\ ex_fn = "score") =>
        /\ ex_out = ClaimedScore(ex_text)
        /\ ex_out.kind \in {"None", "float"}
        /\ ex_text = Text873 => ex_out = FloatVal(873, 10)
        /\ ex_text = TextTwoDots => ex_out = None

\* "87.3" has been normalized to 87.3
C15_Witness ==
    /\ ex_pc = "returned"
    /\ ex_fn = "score"
    /\ ex_text = Text873
    /\ ex_out = FloatVal(873, 10)

(***************************************************************************)
(* RankingsParser.parse.  A document is the sequence of its tables, a      *)
(* table has an id, a class and rows, a row is the sequence of its <td>    *)
(* elements.  Info-level log events are not recorded.                      *)
(***************************************************************************)
MaxRows == 2          \* data rows of the rankings table
ManyRows == 10        \* len(rows) > 10

Str(text) == [kind |-> "str", val |-> text]
SitePrefix == <<"https://", "www.timeshighereducation.com">>

\* lines 147-164 of _extract_name_and_url: position in nodes(name_col) of
\* the anchor used, 0 when the cell has none
name_link(name_col) ==
    IF find_class(name_col, "a", "ranking-institution-title") # 0
    THEN find_class(name_col, "a", "ranking-institution-title")
    ELSE find_tag(name_col, "a")

\* link_element.get("href")
link_href(name_col) ==
    IF name_link(name_col) # 0 /\ has_attr(nodes(name_col)[name_link(name_col)], "href")
    THEN Str(nodes(name_col)[name_link(name_col)].attrs.href)
    ELSE None

\* lines 166-174: the URL completed
complete_url(href) ==
    IF href = None \/ href.val = <<>> THEN href
    ELSE IF startswith(joined(href.val), "/") THEN Str(SitePrefix \o href.val)
    ELSE IF ~startswith(joined(href.val), "http")
         THEN Str(SitePrefix \o <<"/">> \o href.val)
    ELSE href

\* RankingsParser._extract_name_and_url
extract_name_and_url(name_col) ==
    [name |-> IF name_link(name_col) # 0
              THEN strip(text_of(nodes(name_col)[name_link(name_col)]))
              ELSE strip(text_of(name_col)),
     university_url |-> complete_url(link_href(name_col))]

\* strategy 1 of _extract_country: the location element
location_country(name_col) ==
    LET at == find_class(name_col, "div", "location")
        div == nodes(name_col)[at]
    IN  IF at = 0 THEN <<>>
        ELSE IF find_tag(div, "a") # 0 THEN strip(text_of(nodes(div)[find_tag(div, "a")]))
        ELSE strip(text_of(div))

\* RankingsParser._extract_country
extract_country(name_col) ==
    IF location_country(name_col) # <<>> THEN location_country(name_col)
    ELSE IF Len(stripped_lines(text_of(name_col))) > 1
         THEN stripped_lines(text_of(name_col))[2]
    ELSE <<>>

\* RankingsParser._extract_score_safe: index counts from 0
extract_score_safe(cols, index) ==
    IF index >= Len(cols) THEN [value |-> None, warnings |-> 0]
    ELSE extract_score(strip(text_of(cols[index + 1])))

Warn(msg) == [level |-> "warning", msg |-> msg]
Debug(msg) == [level |-> "debug", msg |-> msg]
Warnings(n, msg) == [k \in 1..n |-> Warn(msg)]

ScoreIndexes == <<2, 3, 4, 5, 6, 7>>

\* RankingsParser._parse_university_row: the value returned and what it logs
parse_university_row(cols) ==
    IF Len(cols) < 2
    THEN [value |-> None, log |-> <<Debug("insufficient columns")>>]
    ELSE LET rank == extract_rank(strip(text_of(cols[1])))
             nu == extract_name_and_url(cols[2])
             sc == [k \in 1..Len(ScoreIndexes) |-> extract_score_safe(cols, ScoreIndexes[k])]
             scorelog == Flatten([k \in 1..Len(ScoreIndexes) |->
                                     Warnings(sc[k].warnings, "could not parse score")])
             ranklog == Warnings(rank.warnings, "could not parse rank")
             namelog == IF name_link(cols[2]) = 0 THEN <<Debug("no link found")>>
                        ELSE <<>>
         IN  IF nu.name = <<>>
             THEN [value |-> None,
                   log |-> ranklog \o namelog
                           \o <<Warn("could not extract university name")>>]
             ELSE [value |-> [rank |-> rank.value,
                              name |-> nu.name,
                              country |-> extract_country(cols[2]),
                              university_url |-> nu.university_url,
                              overall_score |-> sc[1].value,
                              teaching_score |-> sc[2].value,
                              research_score |-> sc[3].value,
                              citations_score |-> sc[4].value,
                              industry_income_score |-> sc[5].value,
                              international_outlook_score |-> sc[6].value],
                   log |-> ranklog \o namelog \o scorelog]

\* soup.find("table", ...): index of the first table among the matching
\* ones, 0 when there is none
find_by_id(doc) == first_of({i \in 1..Len(doc) : doc[i].id = "datatable-1"})
find_by_class(doc) ==
    IF first_of({i \in 1..Len(doc) : doc[i].class = "rankings-table"}) # 0
    THEN first_of({i \in 1..Len(doc) : doc[i].class = "rankings-table"})
    ELSE first_of({i \in 1..Len(doc) : doc[i].class = "data-table"})
find_by_size(doc) == first_of({i \in 1..Len(doc) : Len(doc[i].rows) > ManyRows})

locate_table_ClassFirst(doc) ==
    IF find_by_class(doc) # 0 THEN find_by_class(doc)
    ELSE IF find_by_id(doc) # 0 THEN find_by_id(doc)
    ELSE find_by_size(doc)

\* lines 24-44 of parse: the table that is used
locate_table(doc) ==
    IF find_by_id(doc) # 0 THEN find_by_id(doc)
    ELSE IF find_by_class(doc) # 0 THEN find_by_class(doc)
    ELSE find_by_size(doc)

\* parse, lines 20-47
parse_Locate ==
    /\ rp_pc = "start"
    /\ rp_table' = locate_table(rp_content)
    /\ rp_log' = IF find_by_id(rp_content) = 0
                 THEN rp_log \o <<Warn("could not find table with id datatable-1")>>
                 ELSE rp_log
    /\ rp_pc' = IF locate_table(rp_content) = 0 THEN "raised" ELSE "rows"
    /\ UNCHANGED <<lateVars, sessVars, mrVars, rbVars, cbVars, vdVars, exVars, rp_content, rp_i,
                   universities, dpVars>>

\* rows = table.find_all("tr"); rows[1:] are the data rows
data_rows(doc, t) == IF doc[t].rows = <<>> THEN <<>> ELSE Tail(doc[t].rows)

\* parse, lines 53-67: one iteration of the loop over rows[1:]
parse_Row ==
    /\ rp_pc = "rows"
    /\ rp_i < Len(data_rows(rp_content, rp_table))
    /\ LET r == parse_university_row(data_rows(rp_content, rp_table)[rp_i + 1])
       IN  /\ universities' = IF r.value # None THEN Append(universities, r.value)
                              ELSE universities
           /\ rp_log' = rp_log \o r.log
    /\ rp_i' = rp_i + 1
    /\ UNCHANGED <<lateVars, sessVars, mrVars, rbVars, cbVars, vdVars, exVars, rp_content, rp_table,
                   rp_pc, dpVars>>

\* parse, lines 69-70
parse_Return ==
    /\ rp_pc = "rows"
    /\ rp_i = Len(data_rows(rp_content, rp_table))
    /\ rp_pc' = "returned"
    /\ UNCHANGED <<lateVars, sessVars, mrVars, rbVars, cbVars, vdVars, exVars, rp_content, rp_table,
                   rp_i, universities, rp_log, dpVars>>

\* rows and documents given to parse
Td(children) == Element("td", NoAttrs, children)
Cell(text) == Td(<<Text(text)>>)
Anchor(attrs, text) == Element("a", attrs, <<Text(text)>>)
Location(children) == Element("div", [class |-> {"location"}], children)

NameOxford == Chars("Oxford")
NameMit == Chars("MIT")
LocUk == Chars("UK")
HrefOxford == <<"/world-university-rankings/", "oxford">>
HeaderRow == <<>>                       \* a <tr> of <th> cells: no <td>
RowOxford ==
    <<Cell(<<"1">>),
      Td(<<Anchor([class |-> {"ranking-institution-title"}, href |-> HrefOxford],
                  NameOxford),
           Location(<<Text(LocUk)>>)>>),
      Cell(Text873)>>
\* the cells laid out on lines, the country a link inside the location
RowOnLines ==
    <<Cell(Chars("\n 1\n")),
      Td(<<Text(Chars("\n ")),
           Anchor([class |-> {"ranking-institution-title", "u"}, href |-> HrefOxford],
                  Chars("\n Oxford\n")),
           Location(<<Text(Chars("\n ")), Anchor(NoAttrs, Chars(" UK ")),
                      Text(Chars(", Europe\n"))>>)>>),
      Cell(Chars("\n 87.3\n"))>>
RowBigScore ==
    <<Cell(<<"2">>), Td(<<Anchor([class |-> {"other"}, href |-> <<"mit">>], NameMit)>>),
      Cell(Chars("150")), Cell(Chars("-5")), Cell(TextExponent)>>
\* no location element: the country is the second line of the cell
RowSecondLine ==
    <<Cell(<<"U+0665">>),
      Td(<<Anchor([href |-> <<"https://", "example.org", "/mit">>], NameMit),
           Text(Chars("\nUSA\nAmerica"))>>),
      Cell(<<"U+0669", "U+0665", "%">>)>>
\* the only anchor of the cell is the country link; it has no href
RowLocationLink ==
    <<Cell(Chars("=3")), Td(<<Text(NameMit), Location(<<Anchor(NoAttrs, LocUk)>>)>>)>>
RowEmptyHref ==
    <<Cell(Chars("1_0")), Td(<<Anchor([href |-> <<>>], NameOxford)>>)>>
RowBadRank == <<Cell(TextEmDash), Cell(NameMit), Cell(TextTwoDots)>>
RowOneCell == <<Cell(<<"3">>)>>
RowNoCells == <<>>
RowNoName == <<Cell(<<"4">>), Cell(<<" ", "U+00A0">>)>>
RowPool == {RowOxford, RowOnLines, RowBigScore, RowSecondLine, RowLocationLink,
            RowEmptyHref, RowBadRank, RowOneCell, RowNoCells, RowNoName}

Table(id, class, rows) == [id |-> id, class |-> class, rows |-> rows]
Layouts == {"id", "class", "data-class", "size", "small", "none", "decoy", "two-classes"}
Padding == [k \in 1..ManyRows |-> RowOxford]
DocOf(layout, rows) ==
    CASE layout = "id" -> <<Table("datatable-1", "", <<HeaderRow>> \o rows)>>
      [] layout = "class" -> <<Table("", "rankings-table", <<HeaderRow>> \o rows)>>
      [] layout = "data-class" -> <<Table("main", "data-table", <<HeaderRow>> \o rows)>>
      [] layout = "size" -> <<Table("", "", <<HeaderRow>> \o rows \o Padding)>>
      [] layout = "small" -> <<Table("", "", <<HeaderRow>> \o rows)>>
      [] layout = "none" -> <<>>
      [] layout = "decoy" -> <<Table("", "rankings-table", <<HeaderRow>>),
                               Table("datatable-1", "", <<HeaderRow>> \o rows)>>
      [] layout = "two-classes" -> <<Table("", "data-table", <<HeaderRow>>),
                                     Table("", "rankings-table", <<HeaderRow>> \o rows)>>

InitRankings ==
    /\ SessIdle
    /\ MrIdle
    /\ RbIdle
    /\ CbIdle
    /\ LateIdle
    /\ VdIdle
    /\ DpIdle
    /\ ExIdle
    /\ \E layout \in Layouts, rows \in SeqsUpTo(RowPool, MaxRows) :
           rp_content = DocOf(layout, rows)
    /\ rp_table = 0
    /\ rp_i = 0
    /\ universities = <<>>
    /\ rp_log = <<>>
    /\ rp_pc = "start"

NextRankings ==
    \/ parse_Locate
    \/ parse_Row
    \/ parse_Return

SpecRankings == InitRankings /\ [][NextRankings]_vars

\* the data rows of the located table, and the rows of interest among them
LocatedRows == IF rp_table = 0 THEN <<>> ELSE data_rows(rp_content, rp_table)
MissingCell(row) == Len(row) < 2
CleanRow(row) ==
    /\ parse_university_row(row).value # None
    /\ \A k \in 1..Len(parse_university_row(row).log) :
           parse_university_row(row).log[k].level # "warning"
OneMalformedRow ==
    /\ rp_table # 0
    /\ \E i \in 1..Len(LocatedRows) :
           /\ MissingCell(LocatedRows[i])
           /\ \A j \in 1..Len(LocatedRows) : j # i => CleanRow(LocatedRows[j])
RowWarnings ==
    SelectSeq(rp_log, LAMBDA e : e.level = "warning"
                                 /\ e.msg # "could not find table with id datatable-1")
RemoveMissing(rows) == SelectSeq(rows, LAMBDA r : ~MissingCell(r))

\* C13: when the located table has K data rows of which exactly one misses a
\* required cell, parse returns the K-1 entries of the other rows, has logged
\* exactly one warning for the skipped row, and has not raised.
C13_OneWarningForSkippedRow ==
    (OneMalformedRow /\ rp_pc \in {"returned", "raised"}) =>
        /\ rp_pc = "returned"
        /\ Len(universities) = Len(LocatedRows) - 1
        /\ Len(RowWarnings) = 1

\* what does hold in that case: no raise, and the K-1 entries in table order
C13_EntriesOfOtherRows ==
    (OneMalformedRow /\ rp_pc \in {"returned", "raised"}) =>
        /\ rp_pc = "returned"
        /\ universities = [k \in 1..Len(RemoveMissing(LocatedRows)) |->
                              parse_university_row(RemoveMissing(LocatedRows)[k]).value]
        /\ Len(universities) = Len(LocatedRows) - 1

ScoreFields == {"overall_score", "teaching_score", "research_score", "citations_score",
                "industry_income_score", "international_outlook_score"}
InScoreRange(v) == v = None \/ (v.kind = "float" /\ 0 <= v.num /\ v.num <= 100 * v.den)

\* C16: in every entry returned by parse, each of the six sub-scores is None
\* or a number in [0, 100].
C16_ScoresInRange ==
    \A k \in 1..Len(universities) : \A f \in ScoreFields : InScoreRange(universities[k][f])

(***************************************************************************)
(* One detail page.  For the name, key statistics, additional info and the *)
(* scraper's subjects the page says whether the section's extraction finds *)
(* content, finds nothing or fails inside; for the ranking metrics it      *)
(* gives the mapping each strategy returns (empty when the strategy finds  *)
(* nothing or fails inside, since every strategy swallows its exceptions); *)
(* for the parser's subjects it gives the parsed document.                 *)
(***************************************************************************)
MaxHeaders == 2       \* headings put into one place of a document

SecOutcomes == {"found", "nothing", "raises"}
NameFound == Chars("University of Oxford")
StatsFound == [student_total |-> Chars("21,750")]
InfoFound == [location |-> Chars("Oxford")]
SubjectsFound == <<[category |-> Chars("Law"), name |-> Chars("Law")]>>

RankMain == [overall_score |-> Chars("98.5")]
RankOther == [overall_score |-> Chars("90.0"), world_university_rank |-> Chars("1")]
RankMaps == {EmptyMapping, RankMain, RankOther}

\* BaseParser._create_soup: the nodes of the document in document order
\* and, for each, the position of the last node below it and of its parent
create_soup(doc) ==
    LET D == nodes(doc)
        last == [i \in 1..Len(D) |-> i + Len(nodes(D[i])) - 1] \o <<>>
    IN  [node |-> D,
         last |-> last,
         parent |-> [j \in 1..Len(D) |->
                        IF j = 1 THEN 0 ELSE SetMax({i \in 1..(j - 1) : j <= last[i]})]
                        \o <<>>]
\* the positions of the nodes below the node at position i
below(soup, i) == (i + 1)..soup.last[i]

\* pattern.search(text) for a pattern of letters and spaces compiled with
\* re.IGNORECASE
search_ignorecase(text, pattern) ==
    \E at \in 0..(Len(text) - Len(pattern)) :
        \A k \in 1..Len(pattern) : matches_letter(text[at + k], pattern[k])

\* soup.find(string=re.compile("Subjects Taught", re.IGNORECASE))
subjects_heading(soup) ==
    first_of({i \in 2..Len(soup.node) :
                 /\ is_text(soup.node[i])
                 /\ search_ignorecase(soup.node[i].text, Chars("subjects taught"))})

\* find_parent("div", {"data-testid": re.compile("profiles-section-wrapper")})
is_wrapper(n) ==
    /\ is_tag(n, "div")
    /\ has_attr(n, "testid")
    /\ has_text(n.attrs.testid, Chars("profiles-section-wrapper"))
heading_container(soup) ==
    LET h == subjects_heading(soup)
        around == {i \in 2..(h - 1) : h <= soup.last[i] /\ is_wrapper(soup.node[i])}
    IN  IF h = 0 \/ around = {} THEN 0 ELSE SetMax(around)

\* soup.select_one("div[data-testid='profiles-section-wrapper'][id='subjects'],
\* div[data-testid='subjects']")
is_selected(n) ==
    /\ is_tag(n, "div")
    /\ has_attr(n, "testid")
    /\ \/ n.attrs.testid = Chars("subjects")
       \/ /\ n.attrs.testid = Chars("profiles-section-wrapper")
          /\ has_attr(n, "id")
          /\ n.attrs.id = Chars("subjects")
selected_container(soup) ==
    first_of({i \in 2..Len(soup.node) : is_selected(soup.node[i])})

\* lines 584-599: position of the subjects container, 0 when there is none
subjects_container(soup) ==
    IF heading_container(soup) # 0 THEN heading_container(soup)
    ELSE selected_container(soup)

\* the loop over the li elements of the list at position ul
subject_entries(soup, category, ul) ==
    Flatten([k \in 1..Len(soup.node) |->
                IF /\ k \in below(soup, ul)
                   /\ is_tag(soup.node[k], "li")
                   /\ strip(text_of(soup.node[k])) # <<>>
                THEN <<[category |-> category, name |-> strip(text_of(soup.node[k]))]>>
                ELSE <<>>])

\* lines 614-618: header.find_next("ul", class_="css-19cj1d2"), else
\* header.find_next("ul"); they look at all that follows h in the document
next_list(soup, h) ==
    IF \E j \in (h + 1)..Len(soup.node) :
           is_tag(soup.node[j], "ul") /\ has_class(soup.node[j], "css-19cj1d2")
    THEN first_of({j \in (h + 1)..Len(soup.node) :
                      is_tag(soup.node[j], "ul") /\ has_class(soup.node[j], "css-19cj1d2")})
    ELSE first_of({j \in (h + 1)..Len(soup.node) : is_tag(soup.node[j], "ul")})

\* line 646: header.find_next_sibling("ul")
next_sibling_list(soup, h) ==
    first_of({j \in (h + 1)..Len(soup.node) :
                 is_tag(soup.node[j], "ul") /\ soup.parent[j] = soup.parent[h]})

\* the entries of the heading at position h, given the position of its list
header_subjects(soup, h, list) ==
    IF strip(text_of(soup.node[h])) = <<>> \/ list = 0 THEN <<>>
    ELSE subject_entries(soup, strip(text_of(soup.node[h])), list)

\* lines 607-630: the loop over the h3 elements below the container at c
container_subjects(soup, c) ==
    Flatten([h \in 1..Len(soup.node) |->
                IF h \in below(soup, c) /\ is_tag(soup.node[h], "h3")
                THEN header_subjects(soup, h, next_list(soup, h))
                ELSE <<>>])

\* soup.select("div.css-ejuz3m")
subject_sections(soup) ==
    {i \in 2..Len(soup.node) :
        is_tag(soup.node[i], "div") /\ has_class(soup.node[i], "css-ejuz3m")}

\* lines 633-654.  The loop over the headings stands after the loop over
\* the sections: it sees the h3 elements of the last section, and with no
\* section `headers` is unbound, which ends in the except clause of line 659
fallback_subjects(soup) ==
    IF subject_sections(soup) = {} THEN <<>>
    ELSE Flatten([h \in 1..Len(soup.node) |->
                     IF /\ h \in below(soup, SetMax(subject_sections(soup)))
                        /\ is_tag(soup.node[h], "h3")
                     THEN header_subjects(soup, h, next_sibling_list(soup, h))
                     ELSE <<>>])

\* UniversityDetailParser._extract_subjects_data
parser_extract_subjects_data(soup) ==
    LET found == IF subjects_container(soup) # 0
                 THEN container_subjects(soup, subjects_container(soup))
                 ELSE <<>>
    IN  IF found # <<>> THEN found ELSE fallback_subjects(soup)

\* UniversityDetailParser._extract_university_name and the scraper's
extract_university_name(page) ==
    IF page.name_sec = "found" THEN NameFound ELSE Chars("Unknown")

\* first non-empty strategy result only: a faulty combination
parser_extract_ranking_data_FirstWins(rank) ==
    IF DOMAIN rank.main # {} THEN rank.main
    ELSE IF DOMAIN rank.positions # {} THEN rank.positions
    ELSE IF DOMAIN rank.section # {} THEN rank.section
    ELSE rank.individual

\* UniversityDetailParser._extract_ranking_data
parser_extract_ranking_data(rank) ==
    LET merged == dict_update(dict_update(dict_update(EmptyMapping, rank.main),
                                          rank.positions), rank.section)
    IN  IF DOMAIN merged = {} THEN dict_update(merged, rank.individual) ELSE merged

\* UniversityDetailScraper._extract_ranking_data (a main section that is not
\* found contributes nothing, like an empty result)
scraper_extract_ranking_data(rank) ==
    dict_update(dict_update(dict_update(EmptyMapping, rank.main), rank.positions),
                rank.section)

\* _extract_key_stats and _extract_additional_info
extract_key_stats(page) == IF page.stats_sec = "found" THEN StatsFound ELSE EmptyMapping
extract_additional_info(page) ==
    IF page.info_sec = "found" THEN InfoFound ELSE EmptyMapping

\* UniversityDetailScraper._extract_subjects_data
scraper_extract_subjects_data(page) ==
    IF page.subj_sec = "found" THEN SubjectsFound ELSE <<>>

\* UniversityDetailParser.parse: no section method lets an exception out, so
\* the dict literal is always completed
parser_parse(page, url) ==
    [url |-> url,
     name |-> extract_university_name(page),
     ranking_data |-> parser_extract_ranking_data(page.rank),
     key_stats |-> extract_key_stats(page),
     subjects |-> parser_extract_subjects_data(create_soup(page.dom)),
     additional_info |-> extract_additional_info(page)]

\* an error record that keeps the name: a faulty error form
scrape_detail_page_ErrorWithName(url, page, out) ==
    IF url = <<>> THEN EmptyMapping
    ELSE [url |-> url, name |-> extract_university_name(page), error |-> out,
          scrape_timestamp |-> "t"]

\* UniversityDetailScraper._scrape_single_university on this page; out says
\* whether navigation and waiting went through
scrape_detail_page(url, page, out) ==
    IF url = <<>> THEN EmptyMapping
    ELSE IF out = "ok"
    THEN [url |-> url,
          name |-> extract_university_name(page),
          ranking_data |-> scraper_extract_ranking_data(page.rank),
          key_stats |-> extract_key_stats(page),
          subjects |-> scraper_extract_subjects_data(page),
          scrape_timestamp |-> "t"]
    ELSE [url |-> url, error |-> out, scrape_timestamp |-> "t"]

\* parser.parse(content, url)
detail_Parse ==
    /\ dp_pc = "start"
    /\ dp_parsed' = parser_parse(dp_page, dp_url)
    /\ dp_pc' = "parsed"
    /\ UNCHANGED <<lateVars, sessVars, mrVars, rbVars, cbVars, vdVars, exVars, rpVars, dp_url,
                   dp_page, dp_scraped, dp_cleaned>>

\* scraper._scrape_single_university(url)
detail_Scrape ==
    /\ dp_pc = "parsed"
    /\ \E out \in ScrapeOutcomes : dp_scraped' = scrape_detail_page(dp_url, dp_page, out)
    /\ dp_pc' = "scraped"
    /\ UNCHANGED <<lateVars, sessVars, mrVars, rbVars, cbVars, vdVars, exVars, rpVars, dp_url,
                   dp_page, dp_parsed, dp_cleaned>>

\* run, lines 81-90, on the scraped record
detail_Clean ==
    /\ dp_pc = "scraped"
    /\ dp_cleaned' = process_scraped(<<dp_scraped>>)
    /\ dp_pc' = "done"
    /\ UNCHANGED <<lateVars, sessVars, mrVars, rbVars, cbVars, vdVars, exVars, rpVars, dp_url,
                   dp_page, dp_parsed, dp_scraped>>

\* pages
H3(text) == Element("h3", NoAttrs, <<Text(text)>>)
Li(text) == Element("li", NoAttrs, <<Text(text)>>)
Ul(attrs, items) == Element("ul", attrs, [k \in 1..Len(items) |-> Li(items[k])])
Div(attrs, children) == Element("div", attrs, children)
Document(children) == Element("[document]", NoAttrs, children)
Wrapper(children) ==
    Div([testid |-> Chars("profiles-section-wrapper")],
        <<Element("h2", NoAttrs, <<Text(Chars("Subjects taught"))>>)>> \o children)
Section(children) == Div([class |-> {"css-ejuz3m"}], children)

\* a heading and the list that follows it
BlockLaw == <<H3(Chars("Law")), Ul([class |-> {"css-19cj1d2"}], <<Chars("Law")>>)>>
BlockArts ==
    <<H3(Chars(" Arts\n")), Ul(NoAttrs, <<Chars("History"), <<" ", "U+00A0">>>>)>>
BlockBare == <<H3(Chars("Science"))>>
BlockPool == {BlockLaw, BlockArts, BlockBare}

DomEmpty == Document(<<>>)
DomStructural == Document(<<Wrapper(BlockLaw)>>)
Page(name_sec, stats_sec, info_sec, subj_sec, rank, dom) ==
    [name_sec |-> name_sec, stats_sec |-> stats_sec, info_sec |-> info_sec,
     subj_sec |-> subj_sec, rank |-> rank, dom |-> dom]
RankResults == [main : RankMaps, positions : RankMaps, section : RankMaps,
                individual : RankMaps]

InitDetail ==
    /\ SessIdle
    /\ MrIdle
    /\ RbIdle
    /\ CbIdle
    /\ LateIdle
    /\ VdIdle
    /\ ExIdle
    /\ RpIdle
    /\ dp_url \in {UrlOxford, <<>>}
    /\ \E n \in SecOutcomes, st \in SecOutcomes, inf \in SecOutcomes, sj \in SecOutcomes,
          rank \in RankResults :
           dp_page = Page(n, st, inf, sj, rank,
                          IF sj = "found" THEN DomStructural ELSE DomEmpty)
    /\ dp_parsed = <<>>
    /\ dp_scraped = <<>>
    /\ dp_cleaned = <<>>
    /\ dp_pc = "start"

NextDetail ==
    \/ detail_Parse
    \/ detail_Scrape
    \/ detail_Clean

SpecDetail == InitDetail /\ [][NextDetail]_vars

DataFields == {"name", "ranking_data", "key_stats", "subjects", "additional_info"}
Parsed == dp_pc \in {"parsed", "scraped", "done"}
Scraped == dp_pc \in {"scraped", "done"} /\ dp_url # <<>>
AllSectionsFail ==
    /\ dp_page.name_sec # "found"
    /\ dp_page.stats_sec # "found"
    /\ dp_page.info_sec # "found"
    /\ dp_page.subj_sec # "found"
    /\ \A f \in DOMAIN dp_page.rank : DOMAIN dp_page.rank[f] = {}
IsErrorForm(r) == "error" \in DOMAIN r /\ DOMAIN r \cap DataFields = {}
IsDataForm(r) == "error" \notin DOMAIN r /\ "name" \in DOMAIN r

\* C17: when every section of the detail page fails to extract anything the
\* record is the error form {url, error}, not a record of placeholders; when
\* at least one section succeeds the record is the data form.
C17_TotalFailureGivesErrorForm ==
    Parsed => IF AllSectionsFail THEN IsErrorForm(dp_parsed) ELSE IsDataForm(dp_parsed)

\* what the parser returns on total failure: the record of placeholders
C17_PlaceholderRecord ==
    (Parsed /\ AllSectionsFail) =>
        /\ dp_parsed.name = Chars("Unknown")
        /\ DOMAIN dp_parsed.ranking_data = {}
        /\ DOMAIN dp_parsed.key_stats = {}
        /\ dp_parsed.subjects = <<>>
        /\ DOMAIN dp_parsed.additional_info = {}

\* C18: every record made by the parser or the scraper, and every record
\* that went through the pipeline's cleaning, either has an error field and
\* none of the data fields, or has no error field.
C18_ErrorAndDataExclusive ==
    /\ Parsed => (IsErrorForm(dp_parsed) \/ "error" \notin DOMAIN dp_parsed)
    /\ dp_pc \in {"scraped", "done"} =>
          (IsErrorForm(dp_scraped) \/ "error" \notin DOMAIN dp_scraped)
    /\ \A k \in 1..Len(dp_cleaned) :
          IsErrorForm(dp_cleaned[k]) \/ "error" \notin DOMAIN dp_cleaned[k]

\* the scraper made an error record, the parser a data record, cleaning ran
C18_Witness ==
    /\ dp_pc = "done"
    /\ IsErrorForm(dp_scraped)
    /\ IsDataForm(dp_parsed)
    /\ dp_parsed.name = NameFound

\* the first non-empty mapping of a list of strategy results
RECURSIVE FirstNonEmpty(_)
FirstNonEmpty(maps) ==
    IF maps = <<>> THEN EmptyMapping
    ELSE IF DOMAIN Head(maps) # {} THEN Head(maps)
    ELSE FirstNonEmpty(Tail(maps))

MergedStrategies == <<dp_page.rank.main, dp_page.rank.positions, dp_page.rank.section>>
ScraperHasData == Scraped /\ "ranking_data" \in DOMAIN dp_scraped

\* C19 as stated: the first strategy with a non-empty result alone gives the
\* ranking metrics; a later strategy neither adds keys nor overwrites values.
C19_FirstStrategyAloneDecides ==
    /\ Parsed => dp_parsed.ranking_data =
                     FirstNonEmpty(MergedStrategies \o <<dp_page.rank.individual>>)
    /\ ScraperHasData => dp_scraped.ranking_data = FirstNonEmpty(MergedStrategies)

\* the value key k has after the results were merged in order
LastWith(maps, k) ==
    LET i == CHOOSE j \in 1..Len(maps) :
                 /\ k \in DOMAIN maps[j]
                 /\ \A l \in (j + 1)..Len(maps) : k \notin DOMAIN maps[l]
    IN  maps[i][k]
IsMergeOf(r, maps) ==
    /\ DOMAIN r = UNION {DOMAIN maps[j] : j \in 1..Len(maps)}
    /\ \A k \in DOMAIN r : r[k] = LastWith(maps, k)

\* C19: the first three strategies are all applied in order and their
\* results merged, a later one adding keys and overwriting values; only the
\* parser's fourth strategy is a fallback, used when the merge is empty.
C19_StrategiesMergedInOrder ==
    /\ Parsed =>
          IF \A j \in 1..Len(MergedStrategies) : DOMAIN MergedStrategies[j] = {}
          THEN dp_parsed.ranking_data = dp_page.rank.individual
          ELSE IsMergeOf(dp_parsed.ranking_data, MergedStrategies)
    /\ ScraperHasData => IsMergeOf(dp_scraped.ranking_data, MergedStrategies)

\* two strategies gave a value for the same key and the later one is kept
C19_Witness ==
    /\ Parsed
    /\ dp_page.rank.main = RankMain
    /\ dp_page.rank.section = RankOther
    /\ dp_parsed.ranking_data.overall_score = Chars("90.0")
    /\ "world_university_rank" \in DOMAIN dp_parsed.ranking_data

(***************************************************************************)
(* Detail pages that differ in the elements the subjects selectors see     *)
(***************************************************************************)
\* the headings and lists put into one place of a document
BlockSeqs == {Flatten(bs) : bs \in SeqsUpTo(BlockPool, MaxHeaders)}

SubjectLayouts ==
    {"wrapper", "wrapper-section", "selected", "sections", "nested", "one-section",
     "section-loose", "loose"}
DomOf(layout, a, b) ==
    CASE layout = "wrapper" -> Document(<<Wrapper(a)>> \o b)
      [] layout = "wrapper-section" -> Document(<<Wrapper(a), Section(b)>>)
      [] layout = "selected" ->
             Document(<<Div([testid |-> Chars("subjects")], a), Section(b)>>)
      [] layout = "sections" -> Document(<<Section(a), Section(b)>>)
      [] layout = "nested" -> Document(<<Section(<<Section(a)>> \o b)>>)
      [] layout = "one-section" -> Document(<<Section(a \o b)>>)
      [] layout = "section-loose" -> Document(<<Section(a)>> \o b)
      [] layout = "loose" -> Document(a \o b)
Doms == {DomOf(layout, a, b) : layout \in SubjectLayouts, a \in BlockSeqs, b \in BlockSeqs}

InitSubjects ==
    /\ SessIdle
    /\ MrIdle
    /\ RbIdle
    /\ CbIdle
    /\ LateIdle
    /\ VdIdle
    /\ ExIdle
    /\ RpIdle
    /\ dp_url = UrlOxford
    /\ \E dom \in Doms :
           dp_page = Page("found", "found", "found", "nothing",
                          [main |-> RankMain, positions |-> EmptyMapping,
                           section |-> EmptyMapping, individual |-> EmptyMapping],
                          dom)
    /\ dp_parsed = <<>>
    /\ dp_scraped = <<>>
    /\ dp_cleaned = <<>>
    /\ dp_pc = "start"

SpecSubjects == InitSubjects /\ [][NextDetail]_vars

\* the h3 elements of the page, and those followed by a list of items
headings(soup) == {h \in 2..Len(soup.node) : is_tag(soup.node[h], "h3")}
has_items(soup, h) ==
    /\ next_sibling_list(soup, h) # 0
    /\ header_subjects(soup, h, next_sibling_list(soup, h)) # <<>>
entries_of(soup, among) ==
    Flatten([h \in 1..Len(soup.node) |->
                IF h \in among
                THEN header_subjects(soup, h, next_sibling_list(soup, h))
                ELSE <<>>])
fallback_case(soup) ==
    /\ subjects_container(soup) = 0
    /\ headings(soup) # {}
    /\ \A h \in headings(soup) : has_items(soup, h)
one_entry_per_item(soup, subjects) ==
    LET expected == entries_of(soup, headings(soup))
    IN  /\ subjects # <<>>
        /\ Len(subjects) = Len(expected)
        /\ \A k \in 1..Len(expected) :
              Cardinality({i \in 1..Len(subjects) : subjects[i] = expected[k]})
                  = Cardinality({i \in 1..Len(expected) : expected[i] = expected[k]})
last_container_only(soup, subjects) ==
    subjects =
        IF subject_sections(soup) = {} THEN <<>>
        ELSE entries_of(soup, headings(soup) \cap below(soup, SetMax(subject_sections(soup))))
FallbackCase == Parsed /\ fallback_case(create_soup(dp_page.dom))

\* C20: when the structural locators match nothing and the page has
\* category headings each followed by a list of items, the subjects returned
\* are non-empty and hold one {category, name} entry per list item of every
\* such heading, however many fallback containers the page has.
C20_FallbackOneEntryPerItem ==
    FallbackCase => one_entry_per_item(create_soup(dp_page.dom), dp_parsed.subjects)

\* what does hold: the entries are those of the headings below the last
\* div.css-ejuz3m of the page, and there are none without such an element
C20_LastContainerOnly ==
    FallbackCase => last_container_only(create_soup(dp_page.dom), dp_parsed.subjects)

(***************************************************************************)
(* Rows whose rank text cannot be parsed.                                  *)
(***************************************************************************)
UnparsableRank(row) ==
    /\ Len(row) >= 2
    /\ extract_rank(strip(text_of(row[1]))).value = None
RankParsedRows(rows) ==
    SelectSeq(rows, LAMBDA r : parse_university_row(r).value # None
                               /\ ~UnparsableRank(r))

\* C28: when parse returns, a data row whose rank text cannot be parsed has
\* yielded no entry: the entries returned are those of the remaining rows,
\* in table order.
C28_UnparsableRankRowSkipped ==
    rp_pc = "returned" =>
        universities = [k \in 1..Len(RankParsedRows(LocatedRows)) |->
                           parse_university_row(RankParsedRows(LocatedRows)[k]).value]

\* what does hold: every row is processed, and a row with a name yields an
\* entry whatever its rank text, the rank being None when it is unparsable
C28_RowsAfterStillProcessed ==
    rp_pc = "returned" =>
        /\ rp_i = Len(LocatedRows)
        /\ universities =
               [k \in 1..Len(SelectSeq(LocatedRows,
                                       LAMBDA r : parse_university_row(r).value # None)) |->
                   parse_university_row(
                       SelectSeq(LocatedRows,
                                 LAMBDA r : parse_university_row(r).value # None)[k]).value]

(***************************************************************************)
(* ScrapingPipeline.run around RankingsParser.parse.  The scraper's call   *)
(* either gives the markup rp_content or raises; the Selenium scraper's    *)
(* call opens a browser session first and never quits it.  Writing a file  *)
(* either succeeds or raises OSError.  RankingsParser raises the           *)
(* ParserException of utils/exceptions.py, which is not the class of       *)
(* core/exceptions.py named by the first except clause of run, so it       *)
(* reaches the second one.                                                 *)
(***************************************************************************)
MaxLimit == 1         \* largest configured limit
DefaultYear == "2025"
DefaultView == "reputation"
NoTableMessage == "Could not find rankings table in HTML"

RunScrapeOutcomes == {"html", "utils.ScraperException", "Exception"}
WriteOutcomes == {"ok", "open_raises", "write_raises"}

\* which except clause of run handles an exception (lines 138-143)
run_except_clause(exc) ==
    IF exc \in {"core.ScraperException", "core.ParserException"}
    THEN "scraping/parsing" ELSE "unexpected"

\* the dictionary either clause returns
run_failure(exc, message) ==
    [success |-> FALSE, error |-> message, output_file |-> None,
     clause |-> run_except_clause(exc)]

\* run, lines 110-111
apply_limit(us, limit) ==
    IF limit # 0 /\ Len(us) > limit THEN SubSeq(us, 1, limit) ELSE us

\* run, lines 129-136
run_success(us) ==
    [success |-> TRUE, data |-> us, output_file |-> "rankings.json",
     total_universities |-> Len(us), year |-> DefaultYear, view |-> DefaultView]

\* the file a write leaves behind: open(path, "w") creates it
written_by(kind, out) ==
    CASE out = "ok" -> <<kind>>
      [] out = "open_raises" -> <<>>
      [] out = "write_raises" -> <<kind \o "-partial">>

\* run, lines 77-103: the scraper's call and the optional raw HTML file.
\* _create_scraper (lines 45-58) made a SeleniumRankingsScraper for type
\* "selenium" and a RankingsScraper otherwise.  scrape_rankings (line 89)
\* calls _initialize_driver, leaves the session open, and turns every
\* exception into the ScraperException of utils/exceptions.py; the basic
\* scraper's _make_request (line 94) has no browser session.
run_Scrape ==
    /\ pl_pc = "start"
    /\ \E o \in InitOutcomes, out \in RunScrapeOutcomes, w \in WriteOutcomes :
           LET selenium == pl_scraper_type = "selenium"
               opened == initialize_driver(driver, o, nextSid)
               got == IF selenium /\ initialize_driver_raises(driver, o)
                      THEN "utils.ScraperException" ELSE out
           IN  /\ selenium => out # "Exception"
               /\ ~selenium => o = "ok"
               /\ (selenium /\ got = "html") => CanNavigate(opened)
               /\ driver' = IF selenium THEN opened ELSE driver
               /\ nextSid' = IF selenium /\ initialize_driver_creates(driver, o)
                             THEN nextSid + 1 ELSE nextSid
               /\ IF got # "html"
                  THEN /\ pl_result' = run_failure(got, got)
                       /\ pl_pc' = "done"
                       /\ UNCHANGED <<pl_written, rp_pc>>
                  ELSE IF pl_save_html /\ w # "ok"
                  THEN /\ pl_result' = run_failure("OSError", "OSError")
                       /\ pl_written' = pl_written \o written_by("html", w)
                       /\ pl_pc' = "done"
                       /\ UNCHANGED rp_pc
                  ELSE /\ pl_written' = IF pl_save_html
                                        THEN pl_written \o written_by("html", w)
                                        ELSE pl_written
                       /\ rp_pc' = "start"
                       /\ pl_pc' = "parse"
                       /\ UNCHANGED pl_result
    /\ UNCHANGED <<quitted, max_retries, mrVars, rbVars, cbVars, vdVars, exVars,
                   dpVars, clVars, wtVars, rp_content, rp_table, rp_i,
                   universities, rp_log, pl_scraper_type, pl_limit, pl_save_html>>

\* run, lines 107-143: after parser.parse has returned or raised
run_Finish ==
    /\ pl_pc = "parse"
    /\ rp_pc \in {"returned", "raised"}
    /\ \E w \in WriteOutcomes :
           IF rp_pc = "raised"
           THEN /\ pl_result' = run_failure("utils.ParserException", NoTableMessage)
                /\ UNCHANGED pl_written
           ELSE /\ pl_written' = pl_written \o written_by("json", w)
                /\ pl_result' = IF w = "ok"
                                THEN run_success(apply_limit(universities, pl_limit))
                                ELSE run_failure("OSError", "OSError")
    /\ pl_pc' = "done"
    /\ UNCHANGED <<exceptPl, rpVars,
                   pl_scraper_type, pl_limit, pl_save_html>>

InitPipeline ==
    /\ SessIdle
    /\ MrIdle
    /\ RbIdle
    /\ CbIdle
    /\ VdIdle
    /\ DpIdle
    /\ ExIdle
    /\ ClIdle
    /\ WtIdle
    /\ \E layout \in Layouts, rows \in SeqsUpTo(RowPool, MaxRows) :
           rp_content = DocOf(layout, rows)
    /\ rp_table = 0
    /\ rp_i = 0
    /\ universities = <<>>
    /\ rp_log = <<>>
    /\ rp_pc = "off"
    /\ pl_scraper_type \in {"basic", "selenium"}
    /\ pl_limit \in 0..MaxLimit
    /\ pl_save_html \in BOOLEAN
    /\ pl_written = <<>>
    /\ pl_result = <<>>
    /\ pl_pc = "start"

NextPipeline ==
    \/ run_Scrape
    \/ parse_Locate
    \/ parse_Row
    \/ parse_Return
    \/ run_Finish

SpecPipeline == InitPipeline /\ [][NextPipeline]_vars

\* the tables of the document that each strategy accepts
WithKnownId == {i \in 1..Len(rp_content) : rp_content[i].id = "datatable-1"}
WithKnownClass ==
    {i \in 1..Len(rp_content) : rp_content[i].class \in {"rankings-table", "data-table"}}
WithManyRows == {i \in 1..Len(rp_content) : Len(rp_content[i].rows) > ManyRows}
ParseLocated == rp_pc \in {"rows", "returned", "raised"}

\* C29: once parse has looked for the table, the table used is the first one
\* with the known id if there is one, otherwise one with a known class if
\* there is one, otherwise the first one with more than ten rows; parse has
\* raised exactly when no table matches any of the three; and when it has
\* raised, run returns success = False with no output file, and has written
\* no results file.
C29_TableStrategiesAndFailureResult ==
    /\ ParseLocated =>
           /\ WithKnownId # {} => rp_table = first_of(WithKnownId)
           /\ (WithKnownId = {} /\ WithKnownClass # {}) => rp_table \in WithKnownClass
           /\ (WithKnownId = {} /\ WithKnownClass = {} /\ WithManyRows # {}) =>
                  rp_table = first_of(WithManyRows)
           /\ rp_pc = "raised" <=>
                  (WithKnownId = {} /\ WithKnownClass = {} /\ WithManyRows = {})
    /\ (rp_pc = "raised" /\ pl_pc = "done") =>
           /\ pl_result.success = FALSE
           /\ pl_result.output_file = None
           /\ pl_result.error = NoTableMessage
           /\ \A k \in 1..Len(pl_written) : pl_written[k] \notin {"json", "json-partial"}

\* a document without a matching table has gone through run, and a document
\* whose first table has a known class while a later one has the known id
\* has been parsed
C29_Witness ==
    /\ rp_pc = "raised"
    /\ pl_pc = "done"
    /\ Len(rp_content) > 0
C29_WitnessOrder ==
    /\ rp_pc = "returned"
    /\ pl_pc = "done"
    /\ WithKnownId # {}
    /\ WithKnownClass # {}
    /\ first_of(WithKnownClass) < first_of(WithKnownId)
    /\ pl_result.success

(***************************************************************************)
(* The time.sleep calls of _make_request.                                  *)
(***************************************************************************)
SleepsOfKind(kind) == SelectSeq(sleeps, LAMBDA e : e.kind = kind)
FailedAttempts == Cardinality({k \in 1..Len(navLog) : ~navLog[k].ok})
BetweenAttempts == mr_pc \in {"loop", "returned", "raised"}

\* C24: between attempts and at the end of _make_request, one backoff has
\* been slept per failed attempt, the k-th of them lasting 2^k seconds; when
\* the call raises after max_retries failures its last sleep is the backoff
\* of 2^max_retries; and the politeness delay self.delay has been slept
\* exactly once when the call has returned, as its last sleep, and not at
\* all otherwise.
C24_BackoffAndPolitenessDelay ==
    /\ BetweenAttempts =>
           /\ Len(SleepsOfKind("backoff")) = FailedAttempts
           /\ FailedAttempts = retry_count
    /\ \A k \in 1..Len(SleepsOfKind("backoff")) : SleepsOfKind("backoff")[k].secs = 2^k
    /\ (mr_pc = "raised" /\ retry_count > 0) =>
           /\ retry_count = max_retries
           /\ sleeps[Len(sleeps)] = [kind |-> "backoff", secs |-> 2^max_retries]
    /\ mr_pc = "returned" =>
           /\ Len(SleepsOfKind("polite")) = 1
           /\ sleeps[Len(sleeps)] = [kind |-> "polite", secs |-> DefaultDelay]
           /\ navLog[Len(navLog)].ok
    /\ mr_pc # "returned" => SleepsOfKind("polite") = <<>>

\* a call that returned on its third attempt, one of the failed attempts
\* having failed after the page was loaded
C24_Witness ==
    /\ mr_pc = "returned"
    /\ retry_count = 2
    /\ Len(SleepsOfKind("js")) >= 2
    /\ SleepsOfKind("backoff") = <<[kind |-> "backoff", secs |-> 2],
                                   [kind |-> "backoff", secs |-> 4]>>

\* a call that raised after three failed attempts
C24_WitnessExhausted ==
    /\ mr_pc = "raised"
    /\ retry_count = 3
    /\ sleeps[Len(sleeps)].secs = 8

(***************************************************************************)
(* Sessions, records and persistence across the batches of run_batch.      *)
(***************************************************************************)
IsNav(e) == e.type = "nav"
NavEvents == SelectSeq(events, IsNav)

\* C25: every navigation issued by scrape_university_details, in whichever
\* batch of run_batch, is issued on a live browser session: the handle is
\* set and its session has not been quit.
C25_NavigationOnLiveSession ==
    \A k \in 1..Len(NavEvents) : NavEvents[k].live

\* the navigations of the current scrape_university_details call
CallNavs == SelectSeq(events, LAMBDA e : e.type = "nav" /\ e.num = batch_num)

\* C26: while scrape_university_details runs and when it has returned, its
\* result list holds one record per URL handled so far, in input order and
\* carrying that URL: a data record when the page was scraped, an
\* error-marked record when navigation or extraction failed; every URL of
\* the list is handled before the call returns.
C26_OneRecordPerUrl ==
    (rb_pc \in {"scrape_loop", "process"}) =>
        /\ Len(results) = sc_j
        /\ Len(CallNavs) = sc_j
        /\ rb_pc = "process" => sc_j = Len(valid_urls)
        /\ \A j \in 1..Len(results) :
               /\ results[j].url = valid_urls[j]
               /\ results[j].url # <<>>
               /\ CallNavs[j].out = "ok" =>
                      /\ "error" \notin DOMAIN results[j]
                      /\ {"name", "ranking_data", "key_stats", "subjects"}
                             \subseteq DOMAIN results[j]
               /\ CallNavs[j].out # "ok" => "error" \in DOMAIN results[j]

\* a call that returned two records, the first error-marked, the second data
C26_Witness ==
    /\ rb_pc = "process"
    /\ Len(results) = 2
    /\ "error" \in DOMAIN results[1]
    /\ "error" \notin DOMAIN results[2]

\* the records extracted for batch num: what run makes of the pages scraped
ExtractedIn(num) ==
    process_scraped([k \in 1..Len(SelectSeq(events, LAMBDA e : e.type = "nav"
                                                               /\ e.num = num)) |->
        scrape_single_university(
            SelectSeq(events, LAMBDA e : e.type = "nav" /\ e.num = num)[k].url,
            SelectSeq(events, LAMBDA e : e.type = "nav" /\ e.num = num)[k].out)])
PersistFailure(e) == e.error \in {"save_results", "save_batch"}
KeptAfter(e) == IF e.error \in {"", "save_results", "save_batch"}
                THEN ExtractedIn(e.num) ELSE <<>>

\* C30: when run_batch returns, every batch has been processed, and the
\* records extracted for a batch whose results file or checkpoint could not
\* be written are in the returned list like those of a batch without any
\* failure.
C30_PersistFailureKeepsRecords ==
    rb_pc = "done" =>
        /\ Len(EndEvents) = Len(BatchEvents)
        /\ Len(BatchEvents) = (Len(university_urls) + batch_size - 1) \div batch_size
        /\ all_results = Flatten([k \in 1..Len(EndEvents) |-> KeptAfter(EndEvents[k])])

\* what does hold: the batches after a failed write are processed, and only
\* a failed checkpoint write keeps the batch's records
C30_CheckpointFailureKeepsRecords ==
    rb_pc = "done" =>
        /\ Len(EndEvents) = Len(BatchEvents)
        /\ Len(BatchEvents) = (Len(university_urls) + batch_size - 1) \div batch_size
        /\ all_results = Flatten([k \in 1..Len(EndEvents) |->
                                     IF EndEvents[k].error \in {"", "save_batch"}
                                     THEN ExtractedIn(EndEvents[k].num) ELSE <<>>])

(***************************************************************************)
(* One ranking section of a detail page, read by both extraction paths.    *)
(* An item is a label followed by a value (empty when the item has no      *)
(* second line).  The parser reads the items as elements of the parsed     *)
(* page; the live scraper reads the text the browser shows for the element *)
(* that contains them, one line per label and per value.                   *)
(***************************************************************************)
MaxItems == 2         \* items of the section

LabelTeachingScore == Chars("Teaching Score")
LabelWorld == Chars("World University Rankings 2025")
LabelDash == Chars("Arts") \o <<"U+2013">> \o Chars("Law rank")
LabelResearch == Chars(" Research")
LabelPool == {LabelTeachingScore, LabelWorld, LabelDash, LabelResearch}

Value0 == Chars("0")
Value100 == Chars("100")
Value150 == Chars("150")
Value50th == Chars("50th")
Value1_2_3 == Chars("1.2.3")
ValueTied5 == Chars("=5")
ValuePool == {Value0, Value100, Value150, Value50th, Value1_2_3, ValueTied5, <<>>}

Item(label, value) == [label |-> label, value |-> value]

\* get_text(strip=True, separator="\n"): the stripped texts of the node that
\* are not empty, one per line
get_text(n) ==
    LET texts == strings(n)
    IN  join(SelectSeq([k \in 1..Len(texts) |-> strip(texts[k])], LAMBDA t : t # <<>>),
             <<"\n">>)

\* \b before position i of the text
boundary(text, i) ==
    (i - 1 \in 1..Len(text) /\ is_word(text[i - 1]))
        # (i \in 1..Len(text) /\ is_word(text[i]))

\* the alternatives of the first pattern of _clean_ranking_key; the parser
\* has an en dash for the last one, the scraper the three characters that
\* the bytes of an en dash give when they are read as Windows-1252
ParserDash == <<"U+2013">>
ScraperDash == <<"U+00E2", "U+20AC", "U+201C">>
RemovedWords ==
    <<Chars("ranking"), Chars("rankings"), Chars("rank"), Chars("score"),
      Chars("position"), Chars("the"), Chars("and"), Chars("in"), Chars("of"),
      Chars("for"), Chars("year"), <<"#">>, <<"-">>>>
ParserRemovedWords == RemovedWords \o <<ParserDash>>
ScraperRemovedWords == RemovedWords \o <<ScraperDash>>

\* \b(alternative)\b matches at position p
word_at(text, p, word) ==
    /\ p + Len(word) - 1 <= Len(text)
    /\ text[p] = word[1]
    /\ SubSeq(text, p, p + Len(word) - 1) = word
    /\ boundary(text, p)
    /\ boundary(text, p + Len(word))

\* re.sub(r"\b(ranking|...)\b", " ", text).  A match is a whole run of word
\* characters, or a "#", a "-" or the dash next to such runs: two matches
\* never overlap, and at most one alternative matches at a position.
blank_words(text, words) ==
    LET matched(p) == {k \in 1..Len(words) : word_at(text, p, words[k])}
        blanked(lengths) ==
            Flatten([p \in 1..Len(text) |->
                        IF lengths[p] > 0 THEN <<" ">>
                        ELSE IF \E q \in 1..(p - 1) : q + lengths[q] > p THEN <<>>
                        ELSE <<text[p]>>])
    IN  blanked([p \in 1..Len(text) |->
                    IF matched(p) = {} THEN 0 ELSE Len(words[SetMin(matched(p))])] \o <<>>)

\* re.search(r"\b20\d{2}\b", text)
has_year(text) ==
    \E p \in 1..(Len(text) - 3) :
        /\ boundary(text, p)
        /\ text[p] = "2"
        /\ text[p + 1] = "0"
        /\ isdecimal(text[p + 2])
        /\ isdecimal(text[p + 3])
        /\ boundary(text, p + 4)

\* is c one of a-z, 0-9 and _
is_key_char(c) ==
    LET n == ord(c)
    IN  (97 <= n /\ n <= 122) \/ (48 <= n /\ n <= 57) \/ n = 95

\* _clean_ranking_key; the key is a string
clean_ranking_key(text, words) ==
    LET underscored(spaced) ==
            [i \in 1..Len(spaced) |-> IF spaced[i] = " " THEN "_" ELSE spaced[i]]
        named(key) == IF key = <<>> THEN "unknown" ELSE joined(key)
        cleaned(blanked) ==
            IF /\ has_text(blanked, Chars("world"))
               /\ has_text(blanked, Chars("university"))
               /\ has_year(blanked)
            THEN "world_university"
            ELSE named(SelectSeq(underscored(strip(collapse_spaces(blanked))),
                                 is_key_char))
    IN  IF text = <<>> THEN "unknown" ELSE cleaned(blank_words(lower(text), words))

\* UniversityDetailParser._clean_ranking_key
parser_clean_ranking_key(text) == clean_ranking_key(text, ParserRemovedWords)
\* UniversityDetailScraper._clean_ranking_key
scraper_clean_ranking_key(text) == clean_ranking_key(text, ScraperRemovedWords)

\* the text without the newline that `$` lets stand at its end
before_newline(v) ==
    IF v # <<>> /\ v[Len(v)] = "\n" THEN SubSeq(v, 1, Len(v) - 1) ELSE v

OrdinalSuffixes == {Chars("st"), Chars("nd"), Chars("rd"), Chars("th")}
ends_with_ordinal(v) ==
    Len(v) >= 2 /\ SubSeq(v, Len(v) - 1, Len(v)) \in OrdinalSuffixes

\* re.sub(r"(st|nd|rd|th)$", "", value)
strip_ordinal(v) ==
    IF ends_with_ordinal(v) THEN SubSeq(v, 1, Len(v) - 2)
    ELSE IF ends_with_ordinal(before_newline(v))
    THEN SubSeq(v, 1, Len(v) - 3) \o <<"\n">>
    ELSE v

\* re.match(r"^[\d\.]+$", value)
digits_and_dots(v) ==
    LET body == before_newline(v)
    IN  body # <<>> /\ \A i \in 1..Len(body) : isdecimal(body[i]) \/ body[i] = "."

\* the test `re.match(...) and float(value) > 0 and float(value) <= 100`:
\* "score", "rank", or the ValueError of float
score_or_rank(v) ==
    LET within(number) ==
            IF number = ValueError THEN "ValueError"
            ELSE IF number.num > 0 /\ number.num <= 100 * number.den THEN "score"
            ELSE "rank"
    IN  IF ~digits_and_dots(v) THEN "rank" ELSE within(py_float(v))

\* parser, lines 258-268: the key suffix and the value stored for a value
parser_classify(value) ==
    LET stored(class) ==
            CASE class = "ValueError" -> ValueError
              [] class = "score" -> [class |-> "_score", value |-> value]
              [] OTHER -> [class |-> "_rank", value |-> strip_ordinal(value)]
    IN  stored(score_or_rank(value))

\* scraper, lines 430-440: the suffix is stripped before the test
scraper_classify(next_line) ==
    LET stored(value, class) ==
            CASE class = "ValueError" -> ValueError
              [] class = "score" -> [class |-> "_score", value |-> value]
              [] OTHER -> [class |-> "_rank", value |-> value]
        classified(value) == stored(value, score_or_rank(value))
    IN  classified(strip_ordinal(next_line))

\* rankings[key] = value
setitem(d, key, value) ==
    [x \in DOMAIN d \cup {key} |-> IF x = key THEN value ELSE d[x]]

\* parser, line 240: re.search(r"rank|position|#|\d+(?:st|nd|rd|th)",
\* section_text, re.IGNORECASE)
digit_then_ordinal(text) ==
    \E i \in 1..(Len(text) - 2) :
        /\ isdecimal(text[i])
        /\ \E suffix \in OrdinalSuffixes :
               /\ matches_letter(text[i + 1], suffix[1])
               /\ matches_letter(text[i + 2], suffix[2])
mentions_ranking(section_text) ==
    \/ search_ignorecase(section_text, Chars("rank"))
    \/ search_ignorecase(section_text, Chars("position"))
    \/ has_text(section_text, <<"#">>)
    \/ digit_then_ordinal(section_text)

\* soup.select("div.rankings-section, div.css-ejuz3m > div:nth-child(1),
\* section:has(h2:contains('Rankings'))"): is the node at position i selected
is_ranking_section(soup, i) ==
    \/ is_tag(soup.node[i], "div") /\ has_class(soup.node[i], "rankings-section")
    \/ /\ is_tag(soup.node[i], "div")
       /\ i > 1
       /\ is_tag(soup.node[soup.parent[i]], "div")
       /\ has_class(soup.node[soup.parent[i]], "css-ejuz3m")
       /\ \A j \in (soup.parent[i] + 1)..(i - 1) :
              soup.parent[j] = soup.parent[i] => is_text(soup.node[j])
    \/ /\ is_tag(soup.node[i], "section")
       /\ \E j \in below(soup, i) :
              /\ is_tag(soup.node[j], "h2")
              /\ has_text(text_of(soup.node[j]), Chars("Rankings"))

\* section.select("div.css-11m5q9m, div.css-1dvz8m0")
is_rank_item(n) ==
    is_tag(n, "div") /\ (has_class(n, "css-11m5q9m") \/ has_class(n, "css-1dvz8m0"))

\* lines 235-250: the lines of every item of every section that mentions a
\* ranking, in the order the loops visit them
ranking_items(soup) ==
    Flatten([s \in 1..Len(soup.node) |->
        IF s > 1 /\ is_ranking_section(soup, s) /\ mentions_ranking(get_text(soup.node[s]))
        THEN Flatten([k \in 1..Len(soup.node) |->
                 IF k \in below(soup, s) /\ is_rank_item(soup.node[k])
                 THEN <<stripped_lines(get_text(soup.node[k]))>>
                 ELSE <<>>])
        ELSE <<>>])

\* parser, lines 252-268: the body of the loop over the items; raised is set
\* when float raised ValueError
RECURSIVE parser_items(_, _)
parser_items(items, rankings) ==
    IF items = <<>> THEN [raised |-> FALSE, rankings |-> rankings]
    ELSE IF Len(Head(items)) < 2
         THEN parser_items(Tail(items), rankings)
    ELSE LET item(label, stored) ==
                 IF stored = ValueError THEN [raised |-> TRUE, rankings |-> rankings]
                 ELSE parser_items(Tail(items),
                                   setitem(rankings,
                                           parser_clean_ranking_key(label) \o stored.class,
                                           stored.value))
         IN  item(Head(items)[1], parser_classify(Head(items)[2]))

\* UniversityDetailParser._extract_section_rankings
extract_section_rankings(soup) ==
    LET returned(done) == IF done.raised THEN <<>> ELSE done.rankings   \* except: return {}
    IN  returned(parser_items(ranking_items(soup), <<>>))

\* ranking_keywords, and any(keyword in line.lower() for keyword in ...)
RankingKeywords == {Chars("rank"), Chars("ranking"), Chars("position"), Chars("score"),
                    <<"#">>}
has_keyword(line) ==
    LET low == lower(line) IN \E keyword \in RankingKeywords : has_text(low, keyword)

\* re.match(r"^[\d\.]+$|^[\d]+(st|nd|rd|th)$", next_line)
looks_like_value(next_line) ==
    LET body == before_newline(next_line)
    IN  \/ digits_and_dots(next_line)
        \/ ends_with_ordinal(body) /\ all_digits(SubSeq(body, 1, Len(body) - 2))

\* scraper, lines 419-440: the loop over the pairs of consecutive lines
RECURSIVE scraper_lines(_, _, _)
scraper_lines(lines, i, rankings) ==
    IF i > Len(lines) - 1 THEN [raised |-> FALSE, rankings |-> rankings]
    ELSE LET store(current_line, stored) ==
                 IF stored = ValueError THEN [raised |-> TRUE, rankings |-> rankings]
                 ELSE scraper_lines(lines, i + 1,
                                    setitem(rankings,
                                            scraper_clean_ranking_key(current_line)
                                                \o stored.class,
                                            stored.value))
             pair(current_line, next_line) ==
                 IF ~(has_keyword(current_line) /\ looks_like_value(next_line))
                 THEN scraper_lines(lines, i + 1, rankings)
                 ELSE store(current_line, scraper_classify(next_line))
         IN  pair(strip(lines[i]), strip(lines[i + 1]))

\* scraper, lines 404-440: the loop over the elements found, given the text
\* of each
RECURSIVE scraper_elements(_, _)
scraper_elements(texts, rankings) ==
    IF texts = <<>> THEN [raised |-> FALSE, rankings |-> rankings]
    ELSE LET after(done) ==
                 IF done.raised THEN [raised |-> TRUE, rankings |-> rankings]
                 ELSE scraper_elements(Tail(texts), done.rankings)
             element(element_text) ==
                 IF ~has_keyword(element_text) THEN scraper_elements(Tail(texts), rankings)
                 ELSE after(scraper_lines(split(element_text, "\n"), 1, rankings))
         IN  element(strip(Head(texts)))

\* UniversityDetailScraper._extract_additional_rankings, given the texts of
\* the elements the three selectors find, in the order they are found
extract_additional_rankings(texts) ==
    LET returned(done) == IF done.raised THEN <<>> ELSE done.rankings   \* except: return {}
    IN  returned(scraper_elements(texts, <<>>))

\* the page that shows the items: one div.css-ejuz3m whose first child
\* holds one div.css-11m5q9m per item, label and value in a div each
RankItem(item) ==
    Element("div", [class |-> {"css-11m5q9m"}],
            <<Element("div", NoAttrs, <<Text(item.label)>>)>>
                \o (IF item.value = <<>> THEN <<>>
                    ELSE <<Element("div", NoAttrs, <<Text(item.value)>>)>>))
SectionPage(items) ==
    Element("[document]", NoAttrs,
            <<Element("div", [class |-> {"css-ejuz3m"}],
                      <<Element("div", NoAttrs,
                                [k \in 1..Len(items) |-> RankItem(items[k])])>>)>>)

\* element.text for the elements that "div[data-testid='keyStats']",
\* "div.css-ejuz3m" and "div.css-1heidyz" find: the browser shows every
\* block of text on a line of its own
is_key_stats(n) == is_tag(n, "div") /\ has_attr(n, "testid") /\ n.attrs.testid = Chars("keyStats")
is_classed_div(n, class) == is_tag(n, "div") /\ has_class(n, class)
element_texts(soup) ==
    Flatten([k \in 1..Len(soup.node) |->
                IF is_key_stats(soup.node[k]) THEN <<get_text(soup.node[k])>> ELSE <<>>])
    \o Flatten([k \in 1..Len(soup.node) |->
                IF is_classed_div(soup.node[k], "css-ejuz3m")
                THEN <<get_text(soup.node[k])>> ELSE <<>>])
    \o Flatten([k \in 1..Len(soup.node) |->
                IF is_classed_div(soup.node[k], "css-1heidyz")
                THEN <<get_text(soup.node[k])>> ELSE <<>>])

section_Parser ==
    /\ cl_pc = "start"
    /\ cl_parser' = extract_section_rankings(create_soup(SectionPage(cl_items)))
    /\ cl_pc' = "parser"
    /\ UNCHANGED <<exceptCl, cl_items, cl_scraper>>

section_Scraper ==
    /\ cl_pc = "parser"
    /\ cl_scraper' = extract_additional_rankings(element_texts(create_soup(SectionPage(cl_items))))
    /\ cl_pc' = "done"
    /\ UNCHANGED <<exceptCl, cl_items, cl_parser>>

InitSection ==
    /\ SessIdle
    /\ MrIdle
    /\ RbIdle
    /\ CbIdle
    /\ VdIdle
    /\ ExIdle
    /\ RpIdle
    /\ DpIdle
    /\ PlIdle
    /\ WtIdle
    /\ cl_items \in SeqsUpTo({Item(l, v) : l \in LabelPool, v \in ValuePool}, MaxItems)
    /\ cl_parser = <<>>
    /\ cl_scraper = <<>>
    /\ cl_pc = "start"

NextSection ==
    \/ section_Parser
    \/ section_Scraper

SpecSection == InitSection /\ [][NextSection]_vars

(***************************************************************************)
(* Properties of the two classification paths (SpecSection)                *)
(***************************************************************************)
\* what the two paths make of the labels and of the values of the pools
LabelLines == [l \in LabelPool |-> strip(l)]
ValueLines == [v \in ValuePool |-> strip(v)]
ParserKeys == [l \in LabelPool |-> parser_clean_ranking_key(strip(l))]
ScraperKeys == [l \in LabelPool |-> scraper_clean_ranking_key(strip(l))]
KeywordLabels == {l \in LabelPool : has_keyword(strip(l))}
LikelyValues == {v \in ValuePool : looks_like_value(strip(v))}
ParserStored == [v \in ValuePool |-> parser_classify(strip(v))]
ScraperStored == [v \in ValuePool |-> scraper_classify(strip(v))]

LabelOf(k) == LabelLines[cl_items[k].label]
ValueOf(k) == ValueLines[cl_items[k].value]
KeyIn(path, k) ==
    IF path = "parser" THEN ParserKeys[cl_items[k].label]
    ELSE ScraperKeys[cl_items[k].label]
HasKeyword(k) == cl_items[k].label \in KeywordLabels
LooksLikeValue(k) == cl_items[k].value \in LikelyValues
UniqueKey(path, k) ==
    \A j \in 1..Len(cl_items) : j # k => KeyIn(path, j) # KeyIn(path, k)
SectionMentionsRanking == mentions_ranking(get_text(SectionPage(cl_items)))

\* the item is read by the path and no other item writes under its key
ParserReads(k) ==
    /\ DOMAIN cl_parser # {}
    /\ ValueOf(k) # <<>>
    /\ UniqueKey("parser", k)
ScraperReads(k) ==
    /\ DOMAIN cl_scraper # {}
    /\ ValueOf(k) # <<>>
    /\ HasKeyword(k)
    /\ LooksLikeValue(k)
    /\ UniqueKey("scraper", k)

IsNumber(v) == digits_and_dots(v) /\ py_float(v) # ValueError
WithinClosed(v) == py_float(v).num >= 0 /\ py_float(v).num <= 100 * py_float(v).den
WithinHalfOpen(v) == py_float(v).num > 0 /\ py_float(v).num <= 100 * py_float(v).den
StoredAs(d, key, class, value) ==
    /\ (key \o class) \in DOMAIN d
    /\ d[key \o class] = value
    /\ \A c \in {"_score", "_rank"} \ {class} : (key \o c) \notin DOMAIN d

\* C21: in the parser path and in the live-scraper path, an item whose value
\* is a number v is stored under <key>_score exactly when 0 <= v <= 100 and
\* under <key>_rank otherwise; and an item whose value carries an ordinal
\* suffix is stored under the same key with the same value by both paths.
C21_ScoreIffWithinZeroToHundred ==
    cl_pc = "done" =>
        \A k \in 1..Len(cl_items) :
            LET v == ValueOf(k)
                claimed == IF WithinClosed(v) THEN "_score" ELSE "_rank"
            IN  /\ (ParserReads(k) /\ IsNumber(v)) =>
                       StoredAs(cl_parser, KeyIn("parser", k), claimed, v)
                /\ (ScraperReads(k) /\ IsNumber(v)) =>
                       StoredAs(cl_scraper, KeyIn("scraper", k), claimed, v)
                /\ (ParserReads(k) /\ ScraperReads(k) /\ ends_with_ordinal(v)) =>
                       \E c \in {"_score", "_rank"} :
                           /\ StoredAs(cl_parser, KeyIn("parser", k), c, strip_ordinal(v))
                           /\ StoredAs(cl_scraper, KeyIn("parser", k), c, strip_ordinal(v))

\* what does hold for numbers: the lower bound is exclusive in both paths
C21_ScoreIffAboveZero ==
    cl_pc = "done" =>
        \A k \in 1..Len(cl_items) :
            LET v == ValueOf(k)
                class == IF WithinHalfOpen(v) THEN "_score" ELSE "_rank"
            IN  /\ (ParserReads(k) /\ IsNumber(v)) =>
                       StoredAs(cl_parser, KeyIn("parser", k), class, v)
                /\ (ScraperReads(k) /\ IsNumber(v)) =>
                       StoredAs(cl_scraper, KeyIn("scraper", k), class, v)

\* and for a value with an ordinal suffix: always a rank in the parser path,
\* classified as a number after the suffix is removed in the scraper path
C21_OrdinalValuesDiffer ==
    cl_pc = "done" =>
        \A k \in 1..Len(cl_items) :
            LET v == ValueOf(k)
            IN  /\ (ParserReads(k) /\ ends_with_ordinal(v)) =>
                       StoredAs(cl_parser, KeyIn("parser", k), "_rank", strip_ordinal(v))
                /\ (ScraperReads(k) /\ ends_with_ordinal(v)) =>
                       StoredAs(cl_scraper, KeyIn("scraper", k),
                                IF WithinHalfOpen(strip_ordinal(v)) THEN "_score"
                                ELSE "_rank",
                                strip_ordinal(v))

\* the items whose value float accepts, or that are not tested by float
ParsableIn(path, k) ==
    IF path = "parser" THEN ParserStored[cl_items[k].value] # ValueError
    ELSE ScraperStored[cl_items[k].value] # ValueError
LastWithKey(path, k) ==
    \A j \in (k + 1)..Len(cl_items) : KeyIn(path, j) # KeyIn(path, k)

\* C27: an item whose value cannot be parsed affects only itself: every
\* other item of the section that the path reads has its key/value pair in
\* the section's result (the last item read under a key gives its value).
C27_UnparsableItemAffectsOnlyItself ==
    cl_pc = "done" =>
        \A k \in 1..Len(cl_items) :
            LET v == ValueOf(k)
            IN  /\ (/\ SectionMentionsRanking
                    /\ v # <<>>
                    /\ LastWithKey("parser", k)
                    /\ ParsableIn("parser", k)) =>
                       (KeyIn("parser", k) \o ParserStored[cl_items[k].value].class)
                           \in DOMAIN cl_parser
                /\ (/\ HasKeyword(k)
                    /\ LooksLikeValue(k)
                    /\ LastWithKey("scraper", k)
                    /\ ParsableIn("scraper", k)) =>
                       (KeyIn("scraper", k) \o ScraperStored[cl_items[k].value].class)
                           \in DOMAIN cl_scraper

\* what does hold: the pairs are all there when no item of the section
\* makes float raise, and the result is empty as soon as one does
SomeItemRaises(path) ==
    \E k \in 1..Len(cl_items) :
        /\ ValueOf(k) # <<>>
        /\ ~ParsableIn(path, k)
        /\ path = "scraper" =>
               /\ HasKeyword(k)
               /\ LooksLikeValue(k)
C27_OneBadItemEmptiesTheSection ==
    cl_pc = "done" =>
        /\ (SectionMentionsRanking /\ SomeItemRaises("parser")) => DOMAIN cl_parser = {}
        /\ SomeItemRaises("scraper") => DOMAIN cl_scraper = {}
        /\ \A k \in 1..Len(cl_items) :
               (/\ SectionMentionsRanking
                /\ ~SomeItemRaises("parser")
                /\ ValueOf(k) # <<>>
                /\ LastWithKey("parser", k)) =>
                   (KeyIn("parser", k) \o ParserStored[cl_items[k].value].class)
                       \in DOMAIN cl_parser

(***************************************************************************)
(* One acquisition: SeleniumRankingsScraper.scrape_rankings, or            *)
(* _scrape_single_university as called by scrape_university_details.      *)
(* The page in the session has a height that every scroll may change; the *)
(* markup read from the session is identified by the height the page has   *)
(* at that moment.                                                         *)
(***************************************************************************)
MaxHeight == 3        \* heights the page can report: 1..MaxHeight
MaxScrolls == 3       \* the scroll counter stops counting here

WaitOutcomes == {"found", "timeout", "raises"}
GetOutcomes == {"ok", "get_raises"}
ScriptOutcomes == {"ok", "raises"}        \* driver.execute_script
\* one pass of the scroll loop: the scroll raises, or the scroll is done and
\* the measurement after it raises, or both return
PassOutcomes == {"ok", "scroll_raises", "measure_raises"}
\* driver.page_source returns, raises TimeoutException, or raises another
\* exception
SourceOutcomes == {"ok", "timeout", "raises"}

ScraperExceptionOf(cause) == [kind |-> "ScraperException", cause |-> cause]
Markup(height) == [kind |-> "markup", height |-> height]
Returned(record) == [kind |-> "record", record |-> record]

\* the phase a call is in, in the words of the acquisition state machine
phase(pc) ==
    CASE pc = "idle" -> "IDLE"
      [] pc = "navigating" -> "NAVIGATING"
      [] pc = "waiting" -> "WAITING_FOR_CONTENT"
      [] pc = "success" -> "SUCCESS"
      [] pc = "timeout_fallback" -> "TIMEOUT_FALLBACK"

\* how a failure outside the wait ends the call: scrape_rankings wraps it in
\* ScraperException (lines 89-91), _scrape_single_university returns the
\* error-marked record (lines 138-140)
failure(kind, cause) ==
    IF kind = "rankings" THEN ScraperExceptionOf(cause)
    ELSE Returned(scrape_single_university(UrlOxford, cause))

\* where the call goes after WebDriverWait(...).until: the try / except
\* TimeoutException of scrape_rankings lines 62-87 and of
\* _scrape_single_university lines 104-113
on_wait(w) ==
    CASE w = "found" -> "success"
      [] w = "timeout" -> "timeout_fallback"
      [] OTHER -> "idle"

\* self._initialize_driver() at the start of scrape_rankings (line 48) and of
\* scrape_university_details (line 54)
acquire_Enter ==
    /\ wt_pc = "idle"
    /\ wt_out = None
    /\ wt_trace = <<"IDLE">>
    /\ \E o \in InitOutcomes, q \in QuitOutcomes :
         LET d == initialize_driver(driver, o, nextSid)
             raises == initialize_driver_raises(driver, o)
             \* the finally of scrape_university_details (lines 74-76) quits
             \* the session assigned before the raise; scrape_rankings has none
             quits == wt_kind = "detail" /\ raises /\ d # 0
         IN  /\ driver' = d
             /\ nextSid' = IF initialize_driver_creates(driver, o)
                           THEN nextSid + 1 ELSE nextSid
             /\ quitted' = IF quits THEN quit_effect(d, q) ELSE quitted
             /\ IF raises
                THEN /\ wt_out' = IF quits /\ q # "ok"
                                  THEN [kind |-> "WebDriverException", cause |-> "quit"]
                                  ELSE ScraperExceptionOf("initialize_driver")
                     /\ wt_trace' = Append(wt_trace, "IDLE")
                     /\ UNCHANGED wt_pc
                ELSE /\ wt_pc' = "navigating"
                     /\ wt_trace' = Append(wt_trace, "NAVIGATING")
                     /\ UNCHANGED wt_out
    /\ UNCHANGED <<max_retries, exceptWt, wt_kind, wt_wait, page_height,
                   last_height, scrolls>>

\* self.driver.get(url), time.sleep(3), self._handle_cookie_consent()
acquire_Get ==
    /\ wt_pc = "navigating"
    /\ \E out \in GetOutcomes :
         /\ out = "ok" => CanNavigate(driver)
         /\ IF out = "ok"
            THEN /\ wt_pc' = "waiting"
                 /\ wt_trace' = Append(wt_trace, "WAITING_FOR_CONTENT")
                 /\ UNCHANGED wt_out
            ELSE /\ wt_pc' = "idle"
                 /\ wt_trace' = Append(wt_trace, "IDLE")
                 /\ wt_out' = failure(wt_kind, out)
    /\ UNCHANGED <<sessVars, exceptWt, wt_kind, wt_wait, page_height, last_height,
                   scrolls>>

\* WebDriverWait(self.driver, 15).until(presence_of_element_located(...))
acquire_Wait ==
    /\ wt_pc = "waiting"
    /\ \E w \in WaitOutcomes :
         /\ wt_wait' = w
         /\ wt_pc' = on_wait(w)
         /\ wt_trace' = Append(wt_trace, phase(on_wait(w)))
         /\ wt_out' = IF on_wait(w) = "idle" THEN failure(wt_kind, "wait_raises")
                      ELSE wt_out
    /\ UNCHANGED <<sessVars, exceptWt, wt_kind, page_height, last_height, scrolls>>

\* _scroll_to_load_all_data lines 113-117: the first measurement
scroll_Start ==
    /\ wt_kind = "rankings"
    /\ wt_pc = "success"
    /\ \E s \in ScriptOutcomes :
         IF s = "ok"
         THEN /\ last_height' = page_height
              /\ wt_pc' = "scrolling"
         ELSE /\ wt_pc' = "read"              \* except: warning, continue
              /\ UNCHANGED last_height
    /\ UNCHANGED <<sessVars, exceptWt, wt_kind, wt_wait, wt_trace, wt_out, page_height,
                   scrolls>>

\* the exit test of the loop, line 132
heights_equal(new_height, last) == new_height = last

\* _scroll_to_load_all_data lines 119-135 (scroll_to_bottom lines 164-174):
\* one pass through the loop; the page has height h after the scroll and
\* the pause, also when the measurement that follows raises
scroll_Step ==
    /\ wt_pc = "scrolling"
    /\ \E s \in PassOutcomes, h \in 1..MaxHeight :
         /\ scrolls' = Min(scrolls + 1, MaxScrolls)
         /\ CASE s = "scroll_raises" ->       \* line 121; except: warning, continue
                    /\ wt_pc' = "read"
                    /\ UNCHANGED <<page_height, last_height>>
              [] s = "measure_raises" ->      \* line 129; except: warning, continue
                    /\ page_height' = h
                    /\ wt_pc' = "read"
                    /\ UNCHANGED last_height
              [] s = "ok" ->
                    /\ page_height' = h
                    /\ IF heights_equal(h, last_height)
                       THEN wt_pc' = "read" /\ UNCHANGED last_height
                       ELSE last_height' = h /\ UNCHANGED wt_pc
    /\ UNCHANGED <<sessVars, exceptWt, wt_kind, wt_wait, wt_trace, wt_out>>

\* scrape_rankings lines 81-87: self.driver.page_source.  The read of line
\* 81 stands inside the try of the wait, so a TimeoutException it raises is
\* caught at line 84 and the markup is read again at line 87; the read of
\* line 87 stands outside it, so whatever it raises reaches line 89
rankings_Read ==
    /\ wt_kind = "rankings"
    /\ wt_pc \in {"read", "timeout_fallback"}
    /\ \E src \in SourceOutcomes :
         IF wt_pc = "read" /\ src = "timeout"
         THEN /\ wt_pc' = "timeout_fallback"
              /\ wt_trace' = Append(wt_trace, phase("timeout_fallback"))
              /\ UNCHANGED wt_out
         ELSE /\ wt_out' = IF src = "ok" THEN Markup(page_height)
                           ELSE ScraperExceptionOf("page_source")
              /\ wt_pc' = "idle"
              /\ wt_trace' = Append(wt_trace, phase("idle"))
    /\ UNCHANGED <<sessVars, exceptWt, wt_kind, wt_wait, page_height, last_height,
                   scrolls>>

\* _scrape_single_university lines 115-140: the extraction after the wait
single_Extract ==
    /\ wt_kind = "detail"
    /\ wt_pc \in {"success", "timeout_fallback"}
    /\ \E out \in {"ok", "extract_raises"} :
         wt_out' = Returned(scrape_single_university(UrlOxford, out))
    /\ wt_pc' = "idle"
    /\ wt_trace' = Append(wt_trace, "IDLE")
    /\ UNCHANGED <<sessVars, exceptWt, wt_kind, wt_wait, page_height, last_height,
                   scrolls>>

\* a scraper with or without a session from earlier use starts one call
InitAcquire ==
    /\ driver \in {0, 1}
    /\ nextSid = driver + 1
    /\ quitted = {}
    /\ max_retries = DefaultMaxRetries
    /\ MrIdle
    /\ RbIdle
    /\ CbIdle
    /\ VdIdle
    /\ ExIdle
    /\ RpIdle
    /\ DpIdle
    /\ PlIdle
    /\ ClIdle
    /\ wt_kind \in {"rankings", "detail"}
    /\ wt_pc = "idle"
    /\ wt_wait = ""
    /\ wt_trace = <<"IDLE">>
    /\ wt_out = None
    /\ page_height \in 1..MaxHeight
    /\ last_height = 0
    /\ scrolls = 0

NextAcquire ==
    \/ acquire_Enter
    \/ acquire_Get
    \/ acquire_Wait
    \/ scroll_Start
    \/ scroll_Step
    \/ rankings_Read
    \/ single_Extract

SpecAcquire == InitAcquire /\ [][NextAcquire]_vars

\* the scraper keeps executing: no statement of the call blocks for ever
SpecAcquireLive == SpecAcquire /\ WF_vars(NextAcquire)

(***************************************************************************)
(* Properties of one acquisition (SpecAcquire, SpecAcquireLive)            *)
(***************************************************************************)
Finished == wt_pc = "idle" /\ wt_out # None
TimeoutPath == <<"IDLE", "NAVIGATING", "WAITING_FOR_CONTENT", "TIMEOUT_FALLBACK", "IDLE">>
SuccessPath == <<"IDLE", "NAVIGATING", "WAITING_FOR_CONTENT", "SUCCESS", "IDLE">>

\* the phases of a call in which the read of line 81 raised TimeoutException
FoundThenFallbackPath ==
    <<"IDLE", "NAVIGATING", "WAITING_FOR_CONTENT", "SUCCESS", "TIMEOUT_FALLBACK", "IDLE">>

\* a call that got as far as the wait, and whose wait returned or timed out
Waited == wt_wait \in {"found", "timeout"}
Raised == wt_out # None /\ wt_out.kind \in {"ScraperException", "WebDriverException"}

\* C22: when the wait for the expected content has timed out, the call does
\* not fail: scrape_rankings returns the markup the session holds at that
\* moment, _scrape_single_university goes on to the extraction and returns
\* its record, and no exception is raised on that path.  The phases of a
\* call that waited are IDLE, NAVIGATING, WAITING_FOR_CONTENT, then SUCCESS
\* or TIMEOUT_FALLBACK, then IDLE.
C22_TimeoutIsNotFatal ==
    /\ (wt_wait = "timeout" /\ ~Finished) => wt_pc = "timeout_fallback"
    /\ (wt_wait = "timeout" /\ Finished) =>
           /\ ~Raised
           /\ wt_kind = "rankings" => wt_out = Markup(page_height)
           /\ wt_kind = "detail" => wt_out.kind = "record"
    /\ (Waited /\ Finished) => wt_trace \in {SuccessPath, TimeoutPath}

\* what does hold: the TimeoutException of the wait never ends the call.
\* After it scrape_rankings reads the markup, and raises only when that read
\* raises; _scrape_single_university returns the record of the extraction
\* or the error-marked record of a failed extraction.  A call whose wait
\* found the content passes through TIMEOUT_FALLBACK only when the read of
\* line 81 raised TimeoutException.
C22_WaitTimeoutNeverSurfaces ==
    /\ (wt_wait = "timeout" /\ ~Finished) => wt_pc = "timeout_fallback"
    /\ (wt_wait = "timeout" /\ Finished) =>
           /\ wt_trace = TimeoutPath
           /\ wt_kind = "rankings" =>
                  wt_out \in {Markup(page_height), ScraperExceptionOf("page_source")}
           /\ wt_kind = "detail" =>
                  wt_out \in {Returned(scrape_single_university(UrlOxford, out)) :
                                 out \in {"ok", "extract_raises"}}
    /\ (wt_wait = "found" /\ Finished) =>
           wt_trace \in {SuccessPath, FoundThenFallbackPath}

\* scrape_rankings has raised after the wait timed out
C22_RaisedAfterTimeout ==
    /\ Finished
    /\ wt_kind = "rankings"
    /\ wt_wait = "timeout"
    /\ wt_out = ScraperExceptionOf("page_source")

\* the content was found, and the call went through TIMEOUT_FALLBACK
C22_FallbackAfterSuccess ==
    /\ Finished
    /\ wt_wait = "found"
    /\ wt_trace = FoundThenFallbackPath

\* C23: the scroll-to-bottom loop always terminates: once entered, it is
\* left, whatever heights the page reports.
C23_ScrollLoopTerminates == (wt_pc = "scrolling") ~> (wt_pc # "scrolling")

\* what does hold: the loop is left as soon as the height measured after a
\* scroll equals the previous one
C23_StopsOnEqualHeights ==
    [][(wt_pc = "scrolling" /\ page_height' = last_height) => wt_pc' = "read"]_vars

\* and it is still running after any number of passes in which the height
\* changed
C23_StillScrolling ==
    /\ wt_pc = "scrolling"
    /\ scrolls = MaxScrolls

====
